---- MODULE Spec2Model ----
(***************************************************************************)
(* Model of the simple-dns-server of kazukodevv/network-tools:             *)
(* the wire codec (internal/dns/parser.go, encoder), the record store      *)
(* (internal/dns/records.go), the response builder and the UDP listener    *)
(* (internal/dns/server.go); and of its http-load-balancer                 *)
(* (cmd/http-load-balancer/main.go).                                       *)
(*                                                                         *)
(* A byte is a number in 0..255, a Go string or []byte is a sequence of    *)
(* bytes.  Go offsets are 0-based: byte i of data is data[i+1].            *)
(***************************************************************************)
EXTENDS Integers, Sequences, FiniteSets, TLC

VARIABLES
    data,        \* codec: the buffer handed to the decoder
    offset,      \* codec: the offset handed to parseDomainName, or the length n of data[:n]
    nameRes,     \* codec: the result of parseDomainName(data, offset)
    msgRes,      \* codec: the result of ParseDNSMessage(data)
    msg,         \* codec: the message handed to EncodeDNSMessage
    nameIn,      \* codec: the name handed to EncodeDomainName
    records,     \* RecordStore.records: domain -> (record type -> data)
    ops,         \* number of AddRecord/RemoveRecord calls made so far
    query,       \* builder: the query handed to createDNSResponse
    response,    \* builder: the message createDNSResponse returned for query
    lookups,     \* builder: the LookupRecord calls made for query, in order
    panicked,    \* builder: createDNSResponse panicked instead of returning
    conn,        \* Server.conn: "nil", "open" or "closed"
    startPc,     \* where the goroutine running Server.Start is
    stopPc,      \* where the caller of Server.Stop is
    readErrors,  \* failed ReadFromUDP calls logged by the receive loop
    closedReads, \* those of them made on the closed socket
    handlers,    \* the handleDNSQuery goroutines, in dispatch order
    sent,        \* the datagrams written with WriteToUDP, in order
    writing,     \* the AddRecord/RemoveRecord call each store caller is in
    crashed,     \* the process was killed by a panic or a fatal error
    backends,    \* LoadBalancer.backends: the Alive flag of each backend, in order
    current,     \* LoadBalancer.current
    peer,        \* balancer: what the last GetNextPeer call came to
    picked,      \* balancer: the backends GetNextPeer returned since backends last changed
    reply,       \* balancer: what the last ServeHTTP call did with its request
    lbCalls      \* number of GetNextPeer/ServeHTTP calls made so far

codecVars == <<data, offset, nameRes, msgRes, msg, nameIn>>

builderVars == <<records, ops, query, response, lookups, panicked>>

serverVars == <<conn, startPc, stopPc, readErrors, closedReads, handlers,
                sent, writing, crashed>>

lbVars == <<backends, current, peer, picked, reply, lbCalls>>

vars == <<data, offset, nameRes, msgRes, msg, nameIn,
          records, ops, query, response, lookups, panicked,
          conn, startPc, stopPc, readErrors, closedReads, handlers,
          sent, writing, crashed,
          backends, current, peer, picked, reply, lbCalls>>

(***************************************************************************)
(* Program constants                                                       *)
(***************************************************************************)
TYPE_A == 1
TYPE_AAAA == 28
CLASS_IN == 1
MESSAGE_SIZE == 512
MIN_MESSAGE_SIZE == 12
DEFAULT_TTL == 300

\* the '.' separator of strings.Split / strings.Join
Dot == 46

\* "no error" in a result
None == "none"

\* the value of a variable that holds no result or no message yet
Unset == [unset |-> TRUE]

(***************************************************************************)
(* Go string helpers                                                       *)
(***************************************************************************)
RECURSIVE Concat(_)
\* concatenation of a sequence of byte sequences (append(buffer, x...))
Concat(ss) ==
    IF Len(ss) = 0 THEN <<>> ELSE Head(ss) \o Concat(Tail(ss))

\* index (1-based) of the first '.' of s, 0 when there is none
RECURSIVE IndexDot(_, _)
IndexDot(s, i) ==
    IF i > Len(s) THEN 0
    ELSE IF s[i] = Dot THEN i
    ELSE IndexDot(s, i + 1)

\* strings.Split(s, "."): the substrings between the dots; [""] for ""
RECURSIVE Split(_)
Split(s) ==
    LET i == IndexDot(s, 1) IN
    IF i = 0 THEN <<s>>
    ELSE <<SubSeq(s, 1, i - 1)>> \o Split(SubSeq(s, i + 1, Len(s)))

\* strings.Join(labels, ".")
RECURSIVE Join(_)
Join(labels) ==
    IF Len(labels) = 0 THEN <<>>
    ELSE IF Len(labels) = 1 THEN labels[1]
    ELSE labels[1] \o <<Dot>> \o Join(Tail(labels))

\* strings.ToLower: ASCII upper-case letters are folded; a byte >= 0x80 that
\* is not part of a valid UTF-8 sequence is replaced by U+FFFD (EF BF BD).
\* The only byte >= 0x80 of the model's alphabets is 0xC0, never valid UTF-8.
ToLowerByte(b) ==
    IF b >= 65 /\ b <= 90 THEN <<b + 32>>
    ELSE IF b >= 128 THEN <<239, 191, 189>>
    ELSE <<b>>

ToLower(s) == Concat([i \in 1..Len(s) |-> ToLowerByte(s[i])])

(***************************************************************************)
(* Decoder: internal/dns/parser.go                                         *)
(***************************************************************************)
\* a failure is turned into the root name
NameErr_RootName(e) == [err |-> None, name |-> <<Dot>>, offset |-> 0]

\* return "", 0, fmt.Errorf(...)
NameErr(e) == [err |-> e, name |-> <<>>, offset |-> 0]

\* the offset returned is one byte further than the last byte consumed
NameReturn_SkipsByte(labels, off) ==
    IF Len(labels) = 0
    THEN [err |-> None, name |-> <<Dot>>, offset |-> off + 1]
    ELSE [err |-> None, name |-> Join(labels), offset |-> off + 1]

\* the two returns at the end of parseDomainName
NameReturn(labels, off) ==
    IF Len(labels) = 0
    THEN [err |-> None, name |-> <<Dot>>, offset |-> off]
    ELSE [err |-> None, name |-> Join(labels), offset |-> off]

\* the mask 0x3F is forgotten when the pointer's offset is formed
PointerTarget_NoMask(length, next) == length * 256 + next

\* int(uint16(length&0x3F)<<8 | uint16(data[offset+1]))
PointerTarget(length, next) == (length % 64) * 256 + next

\* the name goes on where the name at the target ended
AfterPointer_AtTarget(off, sub) == sub.offset

\* offset += 2: the offset the nested call returned is dropped
AfterPointer(off, sub) == off + 2

\* The for loop of parseDomainName with its recursive call.  active is the
\* set of offsets at which this call and the calls enclosing it started; Go
\* keeps no such set, the recursion of the code ends only by reaching a name
\* without pointer or an error.  The function is deterministic, so a nested
\* call that starts at an offset where an enclosing call started repeats
\* that call and never returns: the goroutine stack grows to its limit and
\* the runtime kills the process ("fatal error: stack overflow").  That
\* outcome is err = "StackOverflow".
RECURSIVE parseDomainNameLoop(_, _, _, _)
parseDomainNameLoop(buf, off, labels, active) ==
    IF off >= Len(buf) THEN NameErr("unexpected end of data")
    ELSE LET length == buf[off + 1] IN
         IF length = 0 THEN NameReturn(labels, off + 1)
         ELSE IF length >= 192     \* length & 0xC0 == 0xC0
         THEN IF off + 1 >= Len(buf)
              THEN NameErr("invalid compression pointer")
              ELSE LET pointer == PointerTarget(length, buf[off + 2]) IN
                   IF pointer \in active THEN NameErr("StackOverflow")
                   ELSE LET sub == parseDomainNameLoop(buf, pointer, <<>>,
                                       active \cup {pointer}) IN
                        IF sub.err # None THEN NameErr(sub.err)
                        ELSE NameReturn(labels \o Split(sub.name),
                                        AfterPointer(off, sub))
         ELSE IF off + length + 1 > Len(buf)
              THEN NameErr("label extends beyond data")
              ELSE parseDomainNameLoop(buf, off + length + 1,
                       Append(labels, SubSeq(buf, off + 2, off + 1 + length)),
                       active)

parseDomainName(buf, off) == parseDomainNameLoop(buf, off, <<>>, {off})

U16(hi, lo) == hi * 256 + lo

\* the error is swallowed: the caller gets an empty question and no error
QuestionErr_Swallowed(e) ==
    [err |-> None, question |-> [Name |-> <<>>, Type |-> 0, Class |-> 0],
     offset |-> 0]

QuestionErr(e) == [err |-> e, question |-> Unset, offset |-> 0]

parseQuestions(buf, off) ==
    LET n == parseDomainName(buf, off) IN
    IF n.err # None THEN QuestionErr(n.err)
    ELSE IF n.offset + 4 > Len(buf)
    THEN QuestionErr("not enough data for question type and class")
    ELSE [err |-> None,
          question |-> [Name |-> n.name,
                        Type |-> U16(buf[n.offset + 1], buf[n.offset + 2]),
                        Class |-> U16(buf[n.offset + 3], buf[n.offset + 4])],
          offset |-> n.offset + 4]

\* the question loop of ParseDNSMessage: n questions still to read
RECURSIVE ParseQuestionLoop(_, _, _, _)
ParseQuestionLoop(buf, off, n, questions) ==
    IF n = 0 THEN [err |-> None, questions |-> questions, offset |-> off]
    ELSE LET q == parseQuestions(buf, off) IN
         IF q.err # None THEN [err |-> q.err, questions |-> <<>>, offset |-> 0]
         ELSE ParseQuestionLoop(buf, q.offset, n - 1, Append(questions, q.question))

\* the decoder gives an empty message instead of the error
MsgErr_EmptyMessage(e) ==
    [err |-> None,
     msg |-> [Header |-> [ID |-> 0, Flags |-> 0, QDCount |-> 0, ANCount |-> 0,
                          NSCount |-> 0, ARCount |-> 0],
              Questions |-> <<>>, Answers |-> <<>>]]

MsgErr(e) == [err |-> e, msg |-> Unset]

\* the loop also runs once for every answer the header counts
QuestionCount_WithAnswers(header) == header.QDCount + header.ANCount

\* for range int(msg.Header.QDCount)
QuestionCount(header) == header.QDCount

\* the length test accepts a buffer of 12 bytes as too short
TooShort_Inclusive(buf) == Len(buf) <= MIN_MESSAGE_SIZE

\* len(data) < MIN_MESSAGE_SIZE
TooShort(buf) == Len(buf) < MIN_MESSAGE_SIZE

ParseDNSMessage(buf) ==
    IF TooShort(buf) THEN MsgErr("message too short")
    ELSE LET header == [ID      |-> U16(buf[1], buf[2]),
                        Flags   |-> U16(buf[3], buf[4]),
                        QDCount |-> U16(buf[5], buf[6]),
                        ANCount |-> U16(buf[7], buf[8]),
                        NSCount |-> U16(buf[9], buf[10]),
                        ARCount |-> U16(buf[11], buf[12])]
             qs == ParseQuestionLoop(buf, 12, QuestionCount(header), <<>>)
         IN IF qs.err # None THEN MsgErr(qs.err)
            ELSE [err |-> None,
                  msg |-> [Header |-> header, Questions |-> qs.questions,
                           Answers |-> <<>>]]

(***************************************************************************)
(* Encoder: EncodeDNSMessage / EncodeDomainName                            *)
(***************************************************************************)
\* byte(x>>8), byte(x) of a 16-bit value
Bytes16(x) == <<(x \div 256) % 256, x % 256>>

\* byte(x>>24), byte(x>>16), byte(x>>8), byte(x) of a 32-bit value
Bytes32(x) == <<(x \div 16777216) % 256, (x \div 65536) % 256,
                (x \div 256) % 256, x % 256>>

\* a label longer than 63 bytes is cut to its first 63 bytes
EncodeLabel_Truncating(label) ==
    IF Len(label) > 63 THEN <<63>> \o SubSeq(label, 1, 63)
    ELSE <<Len(label) % 256>> \o label

\* one iteration of the label loop: a label longer than 63 bytes is skipped
EncodeLabel(label) ==
    IF Len(label) > 63 THEN <<>> ELSE <<Len(label) % 256>> \o label

EncodeDomainName(name) ==
    IF name = <<>> THEN <<0>>
    ELSE LET labels == Split(name) IN
         Concat([i \in 1..Len(labels) |-> EncodeLabel(labels[i])]) \o <<0>>

EncodeQuestion(q) ==
    EncodeDomainName(q.Name) \o Bytes16(q.Type) \o Bytes16(q.Class)

EncodeAnswer(a) ==
    EncodeDomainName(a.Name) \o Bytes16(a.Type) \o Bytes16(a.Class)
        \o Bytes32(a.TTL) \o Bytes16(Len(a.Data)) \o a.Data

\* a question name equal to the first question's is written as a pointer
\* to offset 12, where that name was written
EncodeDNSMessage_Compressing(m) ==
    Bytes16(m.Header.ID) \o Bytes16(m.Header.Flags)
        \o Bytes16(m.Header.QDCount) \o Bytes16(m.Header.ANCount)
        \o Bytes16(m.Header.NSCount) \o Bytes16(m.Header.ARCount)
        \o Concat([i \in 1..Len(m.Questions) |->
                     (IF i > 1 /\ m.Questions[i].Name = m.Questions[1].Name
                      THEN <<192, 12>>
                      ELSE EncodeDomainName(m.Questions[i].Name))
                     \o Bytes16(m.Questions[i].Type) \o Bytes16(m.Questions[i].Class)])
        \o Concat([i \in 1..Len(m.Answers) |-> EncodeAnswer(m.Answers[i])])

EncodeDNSMessage(m) ==
    Bytes16(m.Header.ID) \o Bytes16(m.Header.Flags)
        \o Bytes16(m.Header.QDCount) \o Bytes16(m.Header.ANCount)
        \o Bytes16(m.Header.NSCount) \o Bytes16(m.Header.ARCount)
        \o Concat([i \in 1..Len(m.Questions) |-> EncodeQuestion(m.Questions[i])])
        \o Concat([i \in 1..Len(m.Answers) |-> EncodeAnswer(m.Answers[i])])

(***************************************************************************)
(* Record store: internal/dns/records.go                                   *)
(***************************************************************************)
\* "www.example.com", "example.com", "test.com", "localhost", "google.com"
WwwExampleCom == <<119, 119, 119, 46, 101, 120, 97, 109, 112, 108, 101, 46, 99, 111, 109>>
ExampleCom == <<101, 120, 97, 109, 112, 108, 101, 46, 99, 111, 109>>
TestCom == <<116, 101, 115, 116, 46, 99, 111, 109>>
Localhost == <<108, 111, 99, 97, 108, 104, 111, 115, 116>>
GoogleCom == <<103, 111, 111, 103, 108, 101, 46, 99, 111, 109>>

SeedNames == {WwwExampleCom, ExampleCom, TestCom, Localhost, GoogleCom}

SeedData(d) ==
    CASE d = WwwExampleCom -> <<192, 168, 1, 1>>
      [] d = ExampleCom    -> <<192, 168, 1, 1>>
      [] d = TestCom       -> <<10, 0, 0, 1>>
      [] d = Localhost     -> <<127, 0, 0, 1>>
      [] d = GoogleCom     -> <<8, 8, 8, 8>>

NewRecordStore == [d \in SeedNames |-> [t \in {TYPE_A} |-> SeedData(d)]]

NotFound == [found |-> FALSE, data |-> <<>>]

LookupRecord(recs, domain, recordType) ==
    IF domain \in DOMAIN recs
    THEN IF recordType \in DOMAIN recs[domain]
         THEN [found |-> TRUE, data |-> recs[domain][recordType]]
         ELSE NotFound
    ELSE NotFound

\* m with m[k] set to v, k added to the domain when it is new
MapSet(m, k, v) == [x \in DOMAIN m \cup {k} |-> IF x = k THEN v ELSE m[x]]

\* delete(m, k)
MapDelete(m, k) == [x \in DOMAIN m \ {k} |-> m[x]]

EmptyMap == [x \in {} |-> <<>>]

AddRecord(recs, domain, recordType, bytes) ==
    LET inner == IF domain \in DOMAIN recs THEN recs[domain] ELSE EmptyMap IN
    MapSet(recs, domain, MapSet(inner, recordType, bytes))

\* the whole entry of the domain is deleted, whatever other types it holds
RemoveRecord_DropsDomain(recs, domain, recordType) ==
    IF domain \in DOMAIN recs THEN MapDelete(recs, domain) ELSE recs

RemoveRecord(recs, domain, recordType) ==
    IF domain \in DOMAIN recs
    THEN LET inner == MapDelete(recs[domain], recordType) IN
         IF DOMAIN inner = {} THEN MapDelete(recs, domain)
         ELSE MapSet(recs, domain, inner)
    ELSE recs

(***************************************************************************)
(* Response builder: Server.createDNSResponse, internal/dns/server.go      *)
(***************************************************************************)
\* the response starts from the zero header: the id is not copied
InitialResponse_NoID(q) ==
    [Header |-> [ID |-> 0, Flags |-> 33152,
                 QDCount |-> q.Header.QDCount, ANCount |-> 0,
                 NSCount |-> 0, ARCount |-> 0],
     Questions |-> q.Questions,
     Answers |-> <<>>]

\* the id depends on the lookups made by earlier calls
InitialResponse_Counting(q) ==
    [Header |-> [ID |-> (q.Header.ID + Len(lookups)) % 65536, Flags |-> 33152,
                 QDCount |-> q.Header.QDCount, ANCount |-> 0,
                 NSCount |-> 0, ARCount |-> 0],
     Questions |-> q.Questions,
     Answers |-> <<>>]

\* the response starts from the query's header: its counts are copied
InitialResponse_CopiesHeader(q) ==
    [Header |-> [q.Header EXCEPT !.Flags = 33152],
     Questions |-> q.Questions,
     Answers |-> <<>>]

\* the response literal the function starts from
InitialResponse(q) ==
    [Header |-> [ID |-> q.Header.ID, Flags |-> 33152,     \* 0x8180
                 QDCount |-> q.Header.QDCount, ANCount |-> 0,
                 NSCount |-> 0, ARCount |-> 0],
     Questions |-> q.Questions,
     Answers |-> <<>>]

\* the class is not checked
Eligible_AnyClass(question) == question.Type = TYPE_A

\* question.Type == TYPE_A && question.Class == CLASS_IN
Eligible(question) == question.Type = TYPE_A /\ question.Class = CLASS_IN

\* the name is looked up as received
LookupKey_AsReceived(name) == name

\* domainName := strings.ToLower(question.Name)
LookupKey(name) == ToLower(name)

\* the TTL field is left at its zero value
AnswerRecord_NoTTL(question, ipData) ==
    [Name |-> question.Name, Type |-> TYPE_A, Class |-> CLASS_IN,
     TTL |-> 0, Data |-> ipData]

\* the DNSResourceRecord appended for a question that was found
AnswerRecord(question, ipData) ==
    [Name |-> question.Name, Type |-> TYPE_A, Class |-> CLASS_IN,
     TTL |-> DEFAULT_TTL, Data |-> ipData]

\* a name that was answered already is not answered again
AnswerStep_OncePerName(recs, question, st) ==
    IF Eligible(question)
       /\ \A j \in 1..Len(st.msg.Answers) : st.msg.Answers[j].Name # question.Name
    THEN LET key == LookupKey(question.Name)
             l == LookupRecord(recs, key, TYPE_A)
             looked == Append(st.lookups, [domain |-> key, recordType |-> TYPE_A])
         IN IF l.found
            THEN [panic |-> Len(l.data) < 4,
                  lookups |-> looked,
                  msg |-> [st.msg EXCEPT
                             !.Answers = Append(@, AnswerRecord(question, l.data)),
                             !.Header.ANCount = (@ + 1) % 65536]]
            ELSE [panic |-> FALSE, lookups |-> looked, msg |-> st.msg]
    ELSE st

\* The body of the question loop, applied to the state of the call so far:
\* the response under construction and the LookupRecord calls made.  The
\* log call of the found branch indexes ipData[0..3]: stored data shorter
\* than 4 bytes is an index out of range, a run-time panic that nothing
\* recovers.
AnswerStep(recs, question, st) ==
    IF Eligible(question)
    THEN LET key == LookupKey(question.Name)
             l == LookupRecord(recs, key, TYPE_A)
             looked == Append(st.lookups, [domain |-> key, recordType |-> TYPE_A])
         IN IF l.found
            THEN [panic |-> Len(l.data) < 4,
                  lookups |-> looked,
                  msg |-> [st.msg EXCEPT
                             !.Answers = Append(@, AnswerRecord(question, l.data)),
                             !.Header.ANCount = (@ + 1) % 65536]]
            ELSE [panic |-> FALSE, lookups |-> looked, msg |-> st.msg]
    ELSE st

\* the question loop from question i on; a panic ends the call
RECURSIVE AnswerLoop(_, _, _, _)
AnswerLoop(recs, questions, i, st) ==
    IF i > Len(questions) \/ st.panic THEN st
    ELSE AnswerLoop(recs, questions, i + 1, AnswerStep(recs, questions[i], st))

\* flags | 0x0003
OrNXDOMAIN(flags) == flags - (flags % 4) + 3

\* the NXDOMAIN bits are set whatever the answer count
FinalFlags_Always(resp) == [resp EXCEPT !.Header.Flags = OrNXDOMAIN(@)]

\* if response.Header.ANCount == 0 { response.Header.Flags |= 0x0003 }
FinalFlags(resp) ==
    IF resp.Header.ANCount = 0
    THEN [resp EXCEPT !.Header.Flags = OrNXDOMAIN(@)]
    ELSE resp

\* the whole call: panic, or the message returned, and the lookups made
createDNSResponse(recs, q) ==
    LET st == AnswerLoop(recs, q.Questions, 1,
                  [panic |-> FALSE, lookups |-> <<>>, msg |-> InitialResponse(q)])
    IN IF st.panic THEN st ELSE [st EXCEPT !.msg = FinalFlags(@)]

\* the builder is not in use
BuilderIdle ==
    /\ records = NewRecordStore
    /\ ops = 0
    /\ query = Unset
    /\ response = Unset
    /\ lookups = <<>>
    /\ panicked = FALSE

\* the callers of the record store's mutators
Callers == {"w1", "w2"}

\* the server was created by NewServer and Start has not been called
ServerIdle ==
    /\ conn = "nil"
    /\ startPc = "idle"
    /\ stopPc = "idle"
    /\ readErrors = 0
    /\ closedReads = 0
    /\ handlers = <<>>
    /\ sent = <<>>
    /\ writing = [w \in Callers |-> Unset]
    /\ crashed = FALSE

\* the codec is not in use
CodecIdle ==
    /\ data = <<>>
    /\ offset = 0
    /\ nameRes = Unset
    /\ nameIn = Unset
    /\ msgRes = Unset
    /\ msg = Unset

(***************************************************************************)
(* The HTTP load balancer (http-load-balancer/cmd/http-load-balancer).     *)
(* A backend is its Alive flag; backend idx of the Go slice is             *)
(* backends[idx + 1].  LoadBalancer.current is a uint64 that only grows by *)
(* one per call or is set to an index; the number of calls is capped far   *)
(* below 2^64, so the counter never wraps here.                            *)
(***************************************************************************)
NoPeer == [kind |-> "none", idx |-> -1]
NilPeer == [kind |-> "nil", idx |-> -1]
BackendPeer(idx) == [kind |-> "backend", idx |-> idx]
\* the call did not return: integer divide by zero
DivideByZero == [kind |-> "divide by zero", idx |-> -1]

NoReply == [kind |-> "none", idx |-> -1]
\* the request was handed to the ReverseProxy of backend idx
Proxied(idx) == [kind |-> "proxied", idx |-> idx]
\* http.Error(w, "No available backend servers", 503)
ServiceUnavailable == [kind |-> "503", idx |-> -1]
\* the handler panicked reading peer.ReverseProxy of a nil peer
NilDereference == [kind |-> "nil dereference", idx |-> -1]

\* &LoadBalancer{}: no backends, current 0, no call made
BalancerIdle ==
    /\ backends = <<>>
    /\ current = 0
    /\ peer = NoPeer
    /\ picked = <<>>
    /\ reply = NoReply
    /\ lbCalls = 0

\* atomic.AddUint64(&lb.current, 1) % uint64(len(lb.backends)): the counter
\* is incremented before the remainder is taken
NextIndex(bs, cur) ==
    IF Len(bs) = 0
    THEN [panic |-> TRUE, current |-> cur + 1, next |-> -1]
    ELSE [panic |-> FALSE, current |-> cur + 1, next |-> (cur + 1) % Len(bs)]

\* the loop of GetNextPeer from i on, having started at next
RECURSIVE GetNextPeerLoop(_, _, _, _)
GetNextPeerLoop(bs, cur, next, i) ==
    IF i >= Len(bs) + next
    THEN [peer |-> NilPeer, current |-> cur]
    ELSE LET idx == i % Len(bs) IN
         IF bs[idx + 1]
         THEN [peer |-> BackendPeer(idx),
               current |-> IF i # next THEN idx ELSE cur]
         ELSE GetNextPeerLoop(bs, cur, next, i + 1)

GetNextPeer(bs, cur) ==
    LET n == NextIndex(bs, cur) IN
    IF n.panic
    THEN [peer |-> DivideByZero, current |-> n.current]
    ELSE GetNextPeerLoop(bs, n.current, n.next, n.next)

\* what ServeHTTP does with the peer it got
ServeReply(p) ==
    CASE p.kind = "divide by zero" -> DivideByZero
      [] p.kind = "nil" -> NilDereference
      [] OTHER -> ServiceUnavailable

ServeHTTP(bs, cur) ==
    LET g == GetNextPeer(bs, cur) IN
    [peer |-> g.peer, current |-> g.current, reply |-> ServeReply(g.peer)]

(***************************************************************************)
(* Codec inputs.  A buffer is an optional 12-byte header followed by up to *)
(* MaxChunks chunks: labels, terminators, pointers, type/class fields and  *)
(* stray length bytes, in any order, so that well-formed names, truncated  *)
(* names and pointer chains of every shape up to the bound all occur.      *)
(* Pointer chunks target base + k, base being the length of the header.    *)
(***************************************************************************)
MaxChunks == 4
MaxQD == 2

ChunkIds == {"end", "a", "A", "dot", "p0", "p2", "p3", "p4", "qA", "len3"}

Chunk(c, base) ==
    CASE c = "end"  -> <<0>>
      [] c = "a"    -> <<1, 97>>
      [] c = "A"    -> <<1, 65>>
      [] c = "dot"  -> <<1, Dot>>
      [] c = "p0"   -> <<192, base>>
      [] c = "p2"   -> <<192, base + 2>>
      [] c = "p3"   -> <<192, base + 3>>
      [] c = "p4"   -> <<192, base + 4>>
      [] c = "p6"   -> <<192, base + 6>>
      [] c = "qA"   -> <<0, TYPE_A, 0, CLASS_IN>>
      [] c = "len3" -> <<3>>
      [] c = "www"  -> EncodeDomainName(WwwExampleCom)
      [] c = "c0"   -> <<192>>
      [] c = "hi"   -> <<193, 0>>

QueryHeader(qd) == <<18, 52, 1, 0, 0, qd, 0, 0, 0, 0, 0, 0>>

Body(f, base) == Concat([i \in 1..Len(f) |-> Chunk(f[i], base)])

\* a name of one label of 64 bytes 'a', and a question asking for it
LongLabelName == <<64>> \o [i \in 1..64 |-> 97] \o <<0>>

InitCodec ==
    /\ \/ \E n \in 0..MaxChunks : \E f \in [1..n -> ChunkIds] :
             \/ data = Body(f, 0)
             \/ \E qd \in 0..MaxQD : data = QueryHeader(qd) \o Body(f, MIN_MESSAGE_SIZE)
       \/ data = LongLabelName
       \/ data = QueryHeader(1) \o LongLabelName \o <<0, TYPE_A, 0, CLASS_IN>>
    /\ offset = 0
    /\ nameRes = Unset
    /\ nameIn = Unset
    /\ msgRes = Unset
    /\ msg = Unset
    /\ BuilderIdle
    /\ ServerIdle
    /\ BalancerIdle

\* a caller decodes the name at some offset of the buffer
CallParseDomainName ==
    /\ nameRes = Unset /\ msgRes = Unset /\ msg = Unset
    /\ \E off \in 0..Len(data) :
          /\ offset' = off
          /\ nameRes' = parseDomainName(data, off)
    /\ UNCHANGED <<data, msgRes, msg, nameIn>>
    /\ UNCHANGED builderVars
    /\ UNCHANGED serverVars
    /\ UNCHANGED lbVars

\* a caller decodes the buffer as a message
CallParseDNSMessage ==
    /\ nameRes = Unset /\ msgRes = Unset
    /\ msg # Unset => data # <<>>
    /\ msgRes' = ParseDNSMessage(data)
    /\ UNCHANGED <<data, offset, nameRes, msg, nameIn>>
    /\ UNCHANGED builderVars
    /\ UNCHANGED serverVars
    /\ UNCHANGED lbVars

NextCodec == CallParseDomainName \/ CallParseDNSMessage

SpecCodec == InitCodec /\ [][NextCodec]_vars

(***************************************************************************)
(* Round trip inputs: messages built in memory, with header counts equal   *)
(* to the number of questions and answers and every label at most 63 bytes *)
(***************************************************************************)
MaxQuestions == 2
MaxAnswers == 1

\* "a", "A.a", "." (the root name as the decoder renders it) and ""
RoundTripNames == {<<97>>, <<65, Dot, 97>>, <<Dot>>, <<>>}

RoundTripQuestions ==
    [Name : RoundTripNames, Type : {TYPE_A, TYPE_AAAA}, Class : {CLASS_IN}]

RoundTripAnswers ==
    [Name : RoundTripNames, Type : {TYPE_A}, Class : {CLASS_IN},
     TTL : {DEFAULT_TTL}, Data : {<<192, 168, 1, 1>>}]

InitRoundTrip ==
    /\ \E nq \in 0..MaxQuestions, na \in 0..MaxAnswers :
         \E qs \in [1..nq -> RoundTripQuestions], as \in [1..na -> RoundTripAnswers],
            flags \in {256, 33152} :
            msg = [Header |-> [ID |-> 4660, Flags |-> flags, QDCount |-> nq,
                               ANCount |-> na, NSCount |-> 0, ARCount |-> 0],
                   Questions |-> qs, Answers |-> as]
    /\ data = <<>>
    /\ offset = 0
    /\ nameRes = Unset
    /\ nameIn = Unset
    /\ msgRes = Unset
    /\ BuilderIdle
    /\ ServerIdle
    /\ BalancerIdle

\* a caller encodes the message
CallEncodeDNSMessage ==
    /\ msg # Unset /\ data = <<>>
    /\ data' = EncodeDNSMessage(msg)
    /\ UNCHANGED <<offset, nameRes, msgRes, msg, nameIn>>
    /\ UNCHANGED builderVars
    /\ UNCHANGED serverVars
    /\ UNCHANGED lbVars

NextRoundTrip == CallEncodeDNSMessage \/ CallParseDNSMessage

SpecRoundTrip == InitRoundTrip /\ [][NextRoundTrip]_vars

(***************************************************************************)
(* Truncation inputs: the encodings of messages with at least one question *)
(* and a message written by hand with a compressed name, each decoded      *)
(* after being cut to every length (ParseDNSMessage(data[:n])).            *)
(***************************************************************************)
\* one answer to follow the questions
TrailingAnswer ==
    [Name |-> <<97>>, Type |-> TYPE_A, Class |-> CLASS_IN, TTL |-> DEFAULT_TTL,
     Data |-> <<192, 168, 1, 1>>]

\* two questions, "a.a" written out and then as a pointer to offset 12
CompressedQuery ==
    QueryHeader(2) \o <<1, 97, 1, 97, 0>> \o <<0, TYPE_A, 0, CLASS_IN>>
        \o <<192, MIN_MESSAGE_SIZE>> \o <<0, TYPE_A, 0, CLASS_IN>>

InitTruncate ==
    /\ \/ \E nq \in 1..MaxQuestions :
             \E qs \in [1..nq -> RoundTripQuestions], as \in {<<>>, <<TrailingAnswer>>} :
                /\ msg = [Header |-> [ID |-> 4660, Flags |-> 256, QDCount |-> nq,
                                      ANCount |-> Len(as), NSCount |-> 0, ARCount |-> 0],
                          Questions |-> qs, Answers |-> as]
                /\ data = EncodeDNSMessage(msg)
       \/ msg = Unset /\ data = CompressedQuery
    /\ offset = 0
    /\ nameRes = Unset
    /\ nameIn = Unset
    /\ msgRes = Unset
    /\ BuilderIdle
    /\ ServerIdle
    /\ BalancerIdle

\* a caller decodes the first n bytes of the buffer
CallParseTruncated ==
    /\ msgRes = Unset
    /\ \E n \in 0..Len(data) :
          /\ offset' = n
          /\ msgRes' = ParseDNSMessage(SubSeq(data, 1, n))
    /\ UNCHANGED <<data, nameRes, msg, nameIn>>
    /\ UNCHANGED builderVars
    /\ UNCHANGED serverVars
    /\ UNCHANGED lbVars

NextTruncate == CallParseTruncated

SpecTruncate == InitTruncate /\ [][NextTruncate]_vars

(***************************************************************************)
(* Trailing-bytes inputs: a header whose answer, authority and additional  *)
(* counts are all 0 or all 1, followed by up to MaxTrailChunks chunks, of  *)
(* which the first ones are read as the questions and the rest follows     *)
(* them.  The chunk p6 is a pointer to the offset after a question made of *)
(* that pointer and the type and class fields.                             *)
(***************************************************************************)
MaxTrailChunks == 4

TrailChunkIds == {"end", "a", "p0", "p6", "qA"}

HeaderWithCounts(qd, c) == <<18, 52, 1, 0, 0, qd, 0, c, 0, c, 0, c>>

InitTrailing ==
    /\ \E n \in 0..MaxTrailChunks : \E f \in [1..n -> TrailChunkIds] :
          \E qd \in 0..MaxQD, c \in {0, 1} :
             data = HeaderWithCounts(qd, c) \o Body(f, MIN_MESSAGE_SIZE)
    /\ offset = 0
    /\ nameRes = Unset
    /\ nameIn = Unset
    /\ msgRes = Unset
    /\ msg = Unset
    /\ BuilderIdle
    /\ ServerIdle
    /\ BalancerIdle

NextTrailing == CallParseDNSMessage

SpecTrailing == InitTrailing /\ [][NextTrailing]_vars

(***************************************************************************)
(* Name inputs: every string of up to MaxNameLen bytes over 'a', 'A' and   *)
(* '.', and names with labels of 63 and of 64 bytes; each is encoded and   *)
(* the encoding is decoded again.                                          *)
(***************************************************************************)
MaxNameLen == 4

NameAlphabet == {97, 65, Dot}

\* labels of 63 and of 64 bytes 'a'
Label63 == [i \in 1..63 |-> 97]
Label64 == [i \in 1..64 |-> 97]

LongNames ==
    {Label63, Label64, Label64 \o <<Dot, 97>>, <<97, Dot>> \o Label64 \o <<Dot, 65>>,
     Label64 \o <<Dot>> \o Label64}

InitNames ==
    /\ \/ \E n \in 0..MaxNameLen : nameIn \in [1..n -> NameAlphabet]
       \/ nameIn \in LongNames
    /\ data = <<>>
    /\ offset = 0
    /\ nameRes = Unset
    /\ msgRes = Unset
    /\ msg = Unset
    /\ BuilderIdle
    /\ ServerIdle
    /\ BalancerIdle

\* a caller encodes the name
CallEncodeDomainName ==
    /\ data = <<>>
    /\ data' = EncodeDomainName(nameIn)
    /\ UNCHANGED <<offset, nameRes, msgRes, msg, nameIn>>
    /\ UNCHANGED builderVars
    /\ UNCHANGED serverVars
    /\ UNCHANGED lbVars

\* a caller decodes the encoded name from its first byte
CallDecodeEncodedName ==
    /\ data # <<>> /\ nameRes = Unset
    /\ offset' = 0
    /\ nameRes' = parseDomainName(data, 0)
    /\ UNCHANGED <<data, msgRes, msg, nameIn>>
    /\ UNCHANGED builderVars
    /\ UNCHANGED serverVars
    /\ UNCHANGED lbVars

NextNames == CallEncodeDomainName \/ CallDecodeEncodedName

SpecNames == InitNames /\ [][NextNames]_vars

(***************************************************************************)
(* Response builder inputs: the record table after up to MaxOps calls of   *)
(* AddRecord/RemoveRecord on the seed table, and queries of up to          *)
(* MaxQuestions questions.                                                 *)
(***************************************************************************)
MaxOps == 2

\* "WWW.Example.com", "x", "X"
WwwMixedCase == <<87, 87, 87, 46, 69, 120, 97, 109, 112, 108, 101, 46, 99, 111, 109>>
NameX == <<120>>
NameUpperX == <<88>>

QueryNames == {WwwExampleCom, WwwMixedCase, NameX, NameUpperX}

\* class 3 (CHAOS) stands for the classes other than IN
QueryQuestions == [Name : QueryNames, Type : {TYPE_A, TYPE_AAAA}, Class : {CLASS_IN, 3}]

Queries ==
    UNION {{[Header |-> [ID |-> id, Flags |-> 256, QDCount |-> n, ANCount |-> 0,
                         NSCount |-> 0, ARCount |-> 0],
             Questions |-> qs, Answers |-> <<>>]
              : qs \in [1..n -> QueryQuestions], id \in {4660, 43981}}
           : n \in 0..MaxQuestions}

StoreDomains == {NameX, NameUpperX, WwwExampleCom}

\* 10.0.0.2, and a record of two bytes
StoreData == {<<10, 0, 0, 2>>, <<1, 2>>}

InitBuilder == CodecIdle /\ BuilderIdle /\ ServerIdle /\ BalancerIdle

CallAddRecord ==
    /\ query = Unset /\ ops < MaxOps
    /\ \E d \in StoreDomains, t \in {TYPE_A, TYPE_AAAA}, x \in StoreData :
          records' = AddRecord(records, d, t, x)
    /\ ops' = ops + 1
    /\ UNCHANGED <<query, response, lookups, panicked>>
    /\ UNCHANGED codecVars
    /\ UNCHANGED serverVars
    /\ UNCHANGED lbVars

CallRemoveRecord ==
    /\ query = Unset /\ ops < MaxOps
    /\ \E d \in StoreDomains, t \in {TYPE_A, TYPE_AAAA} :
          records' = RemoveRecord(records, d, t)
    /\ ops' = ops + 1
    /\ UNCHANGED <<query, response, lookups, panicked>>
    /\ UNCHANGED codecVars
    /\ UNCHANGED serverVars
    /\ UNCHANGED lbVars

\* a handler builds the response to a query from the current table
CallCreateDNSResponse ==
    /\ query = Unset
    /\ \E q \in Queries :
          LET r == createDNSResponse(records, q) IN
          /\ query' = q
          /\ lookups' = r.lookups
          /\ panicked' = r.panic
          /\ response' = IF r.panic THEN Unset ELSE r.msg
    /\ UNCHANGED <<records, ops>>
    /\ UNCHANGED codecVars
    /\ UNCHANGED serverVars
    /\ UNCHANGED lbVars

NextBuilder == CallAddRecord \/ CallRemoveRecord \/ CallCreateDNSResponse

SpecBuilder == InitBuilder /\ [][NextBuilder]_vars

\* The record store alone: a caller makes up to MaxOps calls of AddRecord
\* and RemoveRecord, one after the other, on the store NewRecordStore made,
\* and one call of LookupRecord among them.
\* a caller looks a pair up: the store is read and not changed
CallLookupRecord ==
    /\ query = Unset /\ lookups = <<>>
    /\ \E d \in SeedNames \cup StoreDomains, t \in {TYPE_A, TYPE_AAAA} :
          lookups' = <<[domain |-> d, recordType |-> t]>>
    /\ UNCHANGED <<records, ops, query, response, panicked>>
    /\ UNCHANGED codecVars
    /\ UNCHANGED serverVars
    /\ UNCHANGED lbVars

NextStore == CallAddRecord \/ CallRemoveRecord \/ CallLookupRecord

SpecStore == InitBuilder /\ [][NextStore]_vars

\* The response builder called twice: after up to MaxOps store calls a
\* handler builds and encodes the response to a query (server.go:97-99),
\* and createDNSResponse is then called a second time with the same query.
\* lookups logs the LookupRecord calls of both calls, data keeps the
\* encoding of the first response.
RepeatQuestions ==
    [Name : {WwwMixedCase, NameX}, Type : {TYPE_A, TYPE_AAAA}, Class : {CLASS_IN}]

RepeatQueries ==
    UNION {{[Header |-> [ID |-> 4660, Flags |-> 256, QDCount |-> n, ANCount |-> 0,
                         NSCount |-> 0, ARCount |-> 0],
             Questions |-> qs, Answers |-> <<>>]
              : qs \in [1..n -> RepeatQuestions]}
           : n \in 0..MaxQuestions}

\* response := s.createDNSResponse(msg); responseData := EncodeDNSMessage(response)
CallCreateDNSResponseAndEncode ==
    /\ query = Unset
    /\ \E q \in RepeatQueries :
          LET r == createDNSResponse(records, q) IN
          /\ query' = q
          /\ lookups' = r.lookups
          /\ panicked' = r.panic
          /\ response' = IF r.panic THEN Unset ELSE r.msg
          /\ data' = IF r.panic THEN <<>> ELSE EncodeDNSMessage(r.msg)
    /\ UNCHANGED <<records, ops>>
    /\ UNCHANGED <<offset, nameRes, msgRes, msg, nameIn>>
    /\ UNCHANGED serverVars
    /\ UNCHANGED lbVars

\* the second call, with the query of the first and the table as it is
CallCreateDNSResponseAgain ==
    /\ query # Unset /\ ~panicked
    /\ LET r == createDNSResponse(records, query) IN
          /\ lookups = r.lookups          \* one call was made so far
          /\ lookups' = lookups \o r.lookups
          /\ panicked' = r.panic
          /\ response' = IF r.panic THEN Unset ELSE r.msg
    /\ UNCHANGED <<records, ops, query>>
    /\ UNCHANGED codecVars
    /\ UNCHANGED serverVars
    /\ UNCHANGED lbVars

NextRepeat ==
    \/ CallAddRecord
    \/ CallRemoveRecord
    \/ CallCreateDNSResponseAndEncode
    \/ CallCreateDNSResponseAgain

SpecRepeat == InitBuilder /\ [][NextRepeat]_vars

(***************************************************************************)
(* Queries of several questions: after up to MaxMultiOps calls of          *)
(* AddRecord for "x" the builder answers a query of up to                  *)
(* MaxMultiQuestions questions, repeated ones included.                    *)
(***************************************************************************)
MaxMultiQuestions == 3
MaxMultiOps == 1

MultiQuestions ==
    [Name : {WwwMixedCase, TestCom, NameX}, Type : {TYPE_A, TYPE_AAAA},
     Class : {CLASS_IN, 3}]

MultiQueries ==
    UNION {{[Header |-> [ID |-> 4660, Flags |-> 256, QDCount |-> n, ANCount |-> 0,
                         NSCount |-> 0, ARCount |-> 0],
             Questions |-> qs, Answers |-> <<>>]
              : qs \in [1..n -> MultiQuestions]}
           : n \in 0..MaxMultiQuestions}

\* a record of either type is added for "x"
CallAddRecordForX ==
    /\ query = Unset /\ ops < MaxMultiOps
    /\ \E t \in {TYPE_A, TYPE_AAAA} :
          records' = AddRecord(records, NameX, t, <<10, 0, 0, 2>>)
    /\ ops' = ops + 1
    /\ UNCHANGED <<query, response, lookups, panicked>>
    /\ UNCHANGED codecVars
    /\ UNCHANGED serverVars
    /\ UNCHANGED lbVars

\* the builder answers a query of several questions
CallCreateDNSResponseMulti ==
    /\ query = Unset
    /\ \E q \in MultiQueries :
          LET r == createDNSResponse(records, q) IN
          /\ query' = q
          /\ lookups' = r.lookups
          /\ panicked' = r.panic
          /\ response' = IF r.panic THEN Unset ELSE r.msg
    /\ UNCHANGED <<records, ops>>
    /\ UNCHANGED codecVars
    /\ UNCHANGED serverVars
    /\ UNCHANGED lbVars

NextMulti == CallAddRecordForX \/ CallCreateDNSResponseMulti

SpecMulti == InitBuilder /\ [][NextMulti]_vars

(***************************************************************************)
(* Pointer inputs: buffers, with and without a header, of up to            *)
(* MaxPtrChunks chunks among a label, a terminator, pointers to base and   *)
(* base + 4, the pointer C1 00 to offset 256 and the lone byte C0.         *)
(***************************************************************************)
MaxPtrChunks == 4

PtrChunkIds == {"a", "end", "p0", "p4", "hi", "c0"}

InitPointers ==
    /\ \E n \in 0..MaxPtrChunks : \E f \in [1..n -> PtrChunkIds] :
          \/ data = Body(f, 0)
          \/ data = QueryHeader(1) \o Body(f, MIN_MESSAGE_SIZE)
    /\ offset = 0
    /\ nameRes = Unset
    /\ nameIn = Unset
    /\ msgRes = Unset
    /\ msg = Unset
    /\ BuilderIdle
    /\ ServerIdle
    /\ BalancerIdle

NextPointers == CallParseDomainName \/ CallParseDNSMessage

SpecPointers == InitPointers /\ [][NextPointers]_vars

(***************************************************************************)
(* One datagram through handleDNSQuery: a buffer of a header with any      *)
(* counts and up to MaxTrailChunks chunks is parsed, answered from the     *)
(* seed table, encoded and written, in one step.                           *)
(***************************************************************************)
HandleChunkIds == {"end", "www", "p0", "qA"}

\* queries for a name of one label of 64 bytes, for a name whose one label
\* is the byte '.', and for a name whose one label is "a.b"
OddLabelQueries ==
    {QueryHeader(1) \o LongLabelName \o <<0, TYPE_A, 0, CLASS_IN>>,
     QueryHeader(1) \o <<1, Dot, 0>> \o <<0, TYPE_A, 0, CLASS_IN>>,
     QueryHeader(1) \o <<3, 97, Dot, 98, 0>> \o <<0, TYPE_A, 0, CLASS_IN>>}

InitHandle ==
    /\ \/ \E n \in 0..MaxTrailChunks : \E f \in [1..n -> HandleChunkIds] :
             \E qd \in 0..MaxQD, c \in {0, 1} :
                data = HeaderWithCounts(qd, c) \o Body(f, MIN_MESSAGE_SIZE)
       \/ data \in OddLabelQueries
    /\ offset = 0
    /\ nameRes = Unset
    /\ nameIn = Unset
    /\ msgRes = Unset
    /\ msg = Unset
    /\ BuilderIdle
    /\ ServerIdle
    /\ BalancerIdle

\* handleDNSQuery from its first line to its last; WriteToUDP may fail
CallHandleDNSQuery ==
    /\ msgRes = Unset /\ ~crashed
    /\ LET r == ParseDNSMessage(data)
           b == createDNSResponse(records, r.msg)
       IN /\ msgRes' = r
          /\ IF Len(data) < MIN_MESSAGE_SIZE \/ r.err # None
             THEN /\ crashed' = (r.err = "StackOverflow")
                  /\ UNCHANGED <<query, response, lookups, panicked, sent>>
             ELSE /\ query' = r.msg
                  /\ lookups' = b.lookups
                  /\ panicked' = b.panic
                  /\ crashed' = b.panic
                  /\ response' = IF b.panic THEN Unset ELSE b.msg
                  /\ IF b.panic THEN sent' = sent
                     ELSE \/ sent' = Append(sent, [addr |-> "c1",
                                                   bytes |-> EncodeDNSMessage(b.msg)])
                          \/ sent' = sent
    /\ UNCHANGED <<data, offset, nameRes, msg, nameIn>>
    /\ UNCHANGED <<records, ops>>
    /\ UNCHANGED <<conn, startPc, stopPc, readErrors, closedReads, handlers, writing>>
    /\ UNCHANGED lbVars

NextHandle == CallHandleDNSQuery

SpecHandle == InitHandle /\ [][NextHandle]_vars

(***************************************************************************)
(* Queries of many questions through handleDNSQuery: up to MaxSizeQD       *)
(* address questions for "www.example.com", each written in full or as a   *)
(* pointer to offset 12; the longest is 222 bytes.                         *)
(***************************************************************************)
MaxSizeQD == 10

\* one question, 21 bytes in full and 6 bytes as a pointer
SizeQuestion(k) ==
    IF k = "full"
    THEN Chunk("www", MIN_MESSAGE_SIZE) \o Chunk("qA", MIN_MESSAGE_SIZE)
    ELSE Chunk("p0", MIN_MESSAGE_SIZE) \o Chunk("qA", MIN_MESSAGE_SIZE)

InitSize ==
    /\ \E n \in 0..MaxSizeQD : \E f \in [1..n -> {"full", "pointer"}] :
          data = QueryHeader(n) \o Concat([i \in 1..n |-> SizeQuestion(f[i])])
    /\ offset = 0
    /\ nameRes = Unset
    /\ nameIn = Unset
    /\ msgRes = Unset
    /\ msg = Unset
    /\ BuilderIdle
    /\ ServerIdle
    /\ BalancerIdle

NextSize == CallHandleDNSQuery

SpecSize == InitSize /\ [][NextSize]_vars

(***************************************************************************)
(* Listener: Server.Start, Server.Stop, Server.handleDNSQuery, with        *)
(* callers of the store's AddRecord/RemoveRecord running beside them.      *)
(* Start runs in its own goroutine and handles every datagram in a new     *)
(* one; each action below is one step of one goroutine.                    *)
(***************************************************************************)
MaxHandlers == 2
MaxReadErrors == 1
MaxStoreCalls == 2

QuestionA == <<0, TYPE_A, 0, CLASS_IN>>

\* the 12-byte header of a query with one question
HeaderOf(id) == Bytes16(id) \o <<1, 0, 0, 1, 0, 0, 0, 0, 0, 0>>

\* The datagrams that arrive, each with the address it comes from: address
\* queries for "www.example.com" and "x", an AAAA query, a datagram of 3
\* bytes, a label that overruns the buffer, a name that is a pointer to
\* itself, and a name that is a pointer to an offset beyond the buffer.
Arrivals ==
    {[addr |-> "c1", data |-> HeaderOf(4660) \o EncodeDomainName(WwwExampleCom) \o QuestionA],
     [addr |-> "c2", data |-> HeaderOf(43981) \o EncodeDomainName(NameX) \o QuestionA],
     [addr |-> "c3", data |-> HeaderOf(7) \o EncodeDomainName(WwwExampleCom)
                                \o <<0, TYPE_AAAA, 0, CLASS_IN>>],
     [addr |-> "c4", data |-> <<18, 52, 1>>],
     [addr |-> "c5", data |-> HeaderOf(8) \o <<3, 119>>],
     [addr |-> "c6", data |-> HeaderOf(9) \o <<192, 12>> \o QuestionA],
     [addr |-> "c7", data |-> HeaderOf(10) \o <<192, 255>> \o QuestionA]}

\* the mutations callers make on the server's store
StoreCalls ==
    {[op |-> "add", domain |-> NameX, recordType |-> TYPE_A, bytes |-> <<10, 0, 0, 2>>],
     [op |-> "remove", domain |-> WwwExampleCom, recordType |-> TYPE_A, bytes |-> <<>>]}

ApplyStoreCall(recs, c) ==
    IF c.op = "add" THEN AddRecord(recs, c.domain, c.recordType, c.bytes)
    ELSE RemoveRecord(recs, c.domain, c.recordType)

\* go s.handleDNSQuery(clientAddr, buffer[:n]); writes counts the handler's
\* WriteToUDP calls, errorsBefore the failed reads the loop logged before
\* it received this datagram
NewHandler(addr, dgram) ==
    [addr |-> addr, data |-> dgram, pc |-> "start", qi |-> 1,
     raced |-> FALSE, outcome |-> "running", writes |-> 0,
     errorsBefore |-> readErrors,
     st |-> [panic |-> FALSE, lookups |-> <<>>, msg |-> Unset],
     questions |-> <<>>]

InitServer == CodecIdle /\ BuilderIdle /\ ServerIdle /\ BalancerIdle

\* a failure to resolve or bind is logged and Start goes on to the loop
StartListen_EntersLoop ==
    /\ ~crashed /\ startPc = "idle"
    /\ \/ conn' = "open" /\ startPc' = "read"
       \/ conn' = conn /\ startPc' = "read"
    /\ UNCHANGED <<stopPc, readErrors, closedReads, handlers, sent, writing, crashed>>
    /\ UNCHANGED <<codecVars, builderVars>>
    /\ UNCHANGED lbVars

\* Start resolves the address and binds the socket, or returns the error
StartListen ==
    /\ ~crashed /\ startPc = "idle"
    /\ \/ conn' = "open" /\ startPc' = "read"
       \/ conn' = conn /\ startPc' = "failed"
    /\ UNCHANGED <<stopPc, readErrors, closedReads, handlers, sent, writing, crashed>>
    /\ UNCHANGED <<codecVars, builderVars>>
    /\ UNCHANGED lbVars

\* One receive buffer is made before the loop and every handler is given a
\* slice of it: a receive writes the new datagram over the first bytes of
\* what the handlers still running hold.
StartReceive_SharedBuffer ==
    /\ ~crashed /\ startPc = "read" /\ conn = "open"
    /\ Len(handlers) < MaxHandlers
    /\ \E d \in Arrivals :
          handlers' =
             Append([i \in 1..Len(handlers) |->
                       [handlers[i] EXCEPT
                          !.data = [k \in 1..Len(@) |->
                                      IF k <= Len(d.data) THEN d.data[k] ELSE @[k]]]],
                    NewHandler(d.addr, d.data))
    /\ UNCHANGED <<conn, startPc, stopPc, readErrors, closedReads, sent, writing, crashed>>
    /\ UNCHANGED <<codecVars, builderVars>>
    /\ UNCHANGED lbVars

\* the datagram is handled inside the loop: the next one is read only when
\* every handler has finished
StartReceive_Waits ==
    /\ ~crashed /\ startPc = "read" /\ conn = "open"
    /\ Len(handlers) < MaxHandlers
    /\ \A i \in 1..Len(handlers) : handlers[i].pc = "done"
    /\ \E d \in Arrivals :
          handlers' = Append(handlers, NewHandler(d.addr, d.data))
    /\ UNCHANGED <<conn, startPc, stopPc, readErrors, closedReads, sent, writing, crashed>>
    /\ UNCHANGED <<codecVars, builderVars>>
    /\ UNCHANGED lbVars

\* ReadFromUDP returns a datagram: a handler goroutine is started and the
\* loop goes back to reading
StartReceive ==
    /\ ~crashed /\ startPc = "read" /\ conn = "open"
    /\ Len(handlers) < MaxHandlers
    /\ \E d \in Arrivals :
          handlers' = Append(handlers, NewHandler(d.addr, d.data))
    /\ UNCHANGED <<conn, startPc, stopPc, readErrors, closedReads, sent, writing, crashed>>
    /\ UNCHANGED <<codecVars, builderVars>>
    /\ UNCHANGED lbVars

\* the loop is left at the first failed read and Start returns the error
StartReadError_Returns ==
    /\ ~crashed /\ startPc = "read" /\ conn # "nil"
    /\ readErrors < MaxReadErrors
    /\ readErrors' = readErrors + 1
    /\ closedReads' = IF conn = "closed" THEN closedReads + 1 ELSE closedReads
    /\ startPc' = "returned"
    /\ UNCHANGED <<conn, stopPc, handlers, sent, writing, crashed>>
    /\ UNCHANGED <<codecVars, builderVars>>
    /\ UNCHANGED lbVars

\* ReadFromUDP returns an error, always so on the closed socket: the loop
\* logs it and continues with the next read
StartReadError ==
    /\ ~crashed /\ startPc = "read" /\ conn # "nil"
    /\ readErrors < MaxReadErrors
    /\ readErrors' = readErrors + 1
    /\ closedReads' = IF conn = "closed" THEN closedReads + 1 ELSE closedReads
    /\ startPc' = "read"
    /\ UNCHANGED <<conn, stopPc, handlers, sent, writing, crashed>>
    /\ UNCHANGED <<codecVars, builderVars>>
    /\ UNCHANGED lbVars

\* Stop closes the socket when s.conn is set, and returns
StopCall ==
    /\ ~crashed /\ stopPc = "idle"
    /\ conn' = IF conn = "nil" THEN "nil" ELSE "closed"
    /\ stopPc' = "done"
    /\ UNCHANGED <<startPc, readErrors, closedReads, handlers, sent, writing, crashed>>
    /\ UNCHANGED <<codecVars, builderVars>>
    /\ UNCHANGED lbVars

\* handleDNSQuery up to the call of createDNSResponse: the length test and
\* ParseDNSMessage
HandleParse(i) ==
    /\ ~crashed /\ handlers[i].pc = "start"
    /\ LET h == handlers[i]
           r == ParseDNSMessage(h.data)
       IN IF Len(h.data) < MIN_MESSAGE_SIZE
          THEN /\ handlers' = [handlers EXCEPT ![i].pc = "done", ![i].outcome = "dropped"]
               /\ crashed' = crashed
          ELSE IF r.err = "StackOverflow"
          THEN /\ handlers' = [handlers EXCEPT ![i].pc = "done", ![i].outcome = "fatal"]
               /\ crashed' = TRUE
          ELSE IF r.err # None
          THEN /\ handlers' = [handlers EXCEPT ![i].pc = "done", ![i].outcome = "dropped"]
               /\ crashed' = crashed
          ELSE /\ handlers' = [handlers EXCEPT
                                 ![i].pc = "build",
                                 ![i].questions = r.msg.Questions,
                                 ![i].st = [panic |-> FALSE, lookups |-> <<>>,
                                            msg |-> InitialResponse(r.msg)]]
               /\ crashed' = crashed
    /\ UNCHANGED <<conn, startPc, stopPc, readErrors, closedReads, sent, writing>>
    /\ UNCHANGED <<codecVars, builderVars>>
    /\ UNCHANGED lbVars

\* the question loop reaches a question: one of another type or class is
\* passed over, for an address question the handler enters LookupRecord
HandleQuestion(i) ==
    /\ ~crashed /\ handlers[i].pc = "build"
    /\ handlers[i].qi <= Len(handlers[i].questions)
    /\ LET h == handlers[i] IN
       IF Eligible(h.questions[h.qi])
       THEN handlers' = [handlers EXCEPT
                           ![i].pc = "lookup",
                           ![i].raced = \E w \in Callers : writing[w] # Unset]
       ELSE handlers' = [handlers EXCEPT ![i].qi = @ + 1]
    /\ UNCHANGED <<conn, startPc, stopPc, readErrors, closedReads, sent, writing, crashed>>
    /\ UNCHANGED <<codecVars, builderVars>>
    /\ UNCHANGED lbVars

\* LookupRecord returns and the rest of the loop body runs.  A lookup that
\* overlapped a mutation of the map is a data race: the runtime may abort
\* the process ("concurrent map read and map write") or let the read see
\* the map as it is now.  Stored data under 4 bytes panics in the log call.
HandleLookupReturn(i) ==
    /\ ~crashed /\ handlers[i].pc = "lookup"
    /\ LET h == handlers[i]
           r == AnswerStep(records, h.questions[h.qi], h.st)
       IN \/ /\ r.panic
             /\ handlers' = [handlers EXCEPT ![i].pc = "done", ![i].outcome = "panic",
                                              ![i].st = r]
             /\ crashed' = TRUE
          \/ /\ ~r.panic
             /\ handlers' = [handlers EXCEPT ![i].pc = "build", ![i].qi = @ + 1,
                                              ![i].st = r, ![i].raced = FALSE]
             /\ crashed' = crashed
          \/ /\ h.raced
             /\ handlers' = [handlers EXCEPT ![i].pc = "done", ![i].outcome = "fatal"]
             /\ crashed' = TRUE
    /\ UNCHANGED <<conn, startPc, stopPc, readErrors, closedReads, sent, writing>>
    /\ UNCHANGED <<codecVars, builderVars>>
    /\ UNCHANGED lbVars

\* a response without answers is not written: the handler ends silently
HandleSend_OnlyAnswers(i) ==
    /\ ~crashed /\ handlers[i].pc = "build"
    /\ handlers[i].qi > Len(handlers[i].questions)
    /\ LET h == handlers[i]
           bytes == EncodeDNSMessage(FinalFlags(h.st.msg))
       IN \/ /\ h.st.msg.Header.ANCount = 0
             /\ sent' = sent
             /\ handlers' = [handlers EXCEPT ![i].pc = "done", ![i].outcome = "dropped"]
          \/ /\ h.st.msg.Header.ANCount > 0 /\ conn = "open"
             /\ sent' = Append(sent, [addr |-> h.addr, bytes |-> bytes])
             /\ handlers' = [handlers EXCEPT ![i].pc = "done", ![i].outcome = "sent",
                                              ![i].writes = @ + 1]
          \/ /\ h.st.msg.Header.ANCount > 0
             /\ sent' = sent
             /\ handlers' = [handlers EXCEPT ![i].pc = "done", ![i].outcome = "sendfailed",
                                              ![i].writes = @ + 1]
    /\ UNCHANGED <<conn, startPc, stopPc, readErrors, closedReads, writing, crashed>>
    /\ UNCHANGED <<codecVars, builderVars>>
    /\ UNCHANGED lbVars

\* after the loop: the NXDOMAIN flag, EncodeDNSMessage and WriteToUDP, which
\* fails on a closed socket and may fail on an open one
HandleSend(i) ==
    /\ ~crashed /\ handlers[i].pc = "build"
    /\ handlers[i].qi > Len(handlers[i].questions)
    /\ LET h == handlers[i]
           bytes == EncodeDNSMessage(FinalFlags(h.st.msg))
       IN \/ /\ conn = "open"
             /\ sent' = Append(sent, [addr |-> h.addr, bytes |-> bytes])
             /\ handlers' = [handlers EXCEPT ![i].pc = "done", ![i].outcome = "sent",
                                              ![i].writes = @ + 1]
          \/ /\ sent' = sent
             /\ handlers' = [handlers EXCEPT ![i].pc = "done", ![i].outcome = "sendfailed",
                                              ![i].writes = @ + 1]
    /\ UNCHANGED <<conn, startPc, stopPc, readErrors, closedReads, writing, crashed>>
    /\ UNCHANGED <<codecVars, builderVars>>
    /\ UNCHANGED lbVars

\* a caller enters AddRecord or RemoveRecord: nothing makes it wait for the
\* lookups or the mutations in progress
StoreCallBegin(w) ==
    /\ ~crashed /\ writing[w] = Unset
    /\ ops < MaxStoreCalls
    /\ \E c \in StoreCalls : writing' = [writing EXCEPT ![w] = c]
    /\ ops' = ops + 1
    /\ handlers' = [i \in 1..Len(handlers) |->
                       IF handlers[i].pc = "lookup"
                       THEN [handlers[i] EXCEPT !.raced = TRUE]
                       ELSE handlers[i]]
    /\ UNCHANGED <<records, query, response, lookups, panicked>>
    /\ UNCHANGED <<conn, startPc, stopPc, readErrors, closedReads, sent, crashed>>
    /\ UNCHANGED codecVars
    /\ UNCHANGED lbVars

\* the mutation is done and the call returns; two mutations that
\* overlapped may also end in the runtime's "concurrent map writes" abort
StoreCallEnd(w) ==
    /\ ~crashed /\ writing[w] # Unset
    /\ \/ /\ records' = ApplyStoreCall(records, writing[w])
          /\ crashed' = crashed
       \/ /\ \E v \in Callers \ {w} : writing[v] # Unset
          /\ records' = records
          /\ crashed' = TRUE
    /\ writing' = [writing EXCEPT ![w] = Unset]
    /\ UNCHANGED <<ops, query, response, lookups, panicked>>
    /\ UNCHANGED <<conn, startPc, stopPc, readErrors, closedReads, handlers, sent>>
    /\ UNCHANGED codecVars
    /\ UNCHANGED lbVars

Init == InitServer

Next ==
    \/ StartListen
    \/ StartReceive
    \/ StartReadError
    \/ StopCall
    \/ \E i \in 1..Len(handlers) : HandleParse(i)
    \/ \E i \in 1..Len(handlers) : HandleQuestion(i)
    \/ \E i \in 1..Len(handlers) : HandleLookupReturn(i)
    \/ \E i \in 1..Len(handlers) : HandleSend(i)
    \/ \E w \in Callers : StoreCallBegin(w)
    \/ \E w \in Callers : StoreCallEnd(w)

Spec == Init /\ [][Next]_vars

\* The listener with nobody calling AddRecord or RemoveRecord on its store,
\* as the server is run by main: Start, Stop and the handlers only.
NextListener ==
    \/ StartListen
    \/ StartReceive
    \/ StartReadError
    \/ StopCall
    \/ \E i \in 1..Len(handlers) : HandleParse(i)
    \/ \E i \in 1..Len(handlers) : HandleQuestion(i)
    \/ \E i \in 1..Len(handlers) : HandleLookupReturn(i)
    \/ \E i \in 1..Len(handlers) : HandleSend(i)

SpecListener == InitServer /\ [][NextListener]_vars

(***************************************************************************)
(* The load balancer: backends are added and their Alive flags set, and    *)
(* GetNextPeer and ServeHTTP are called one after the other.  A panic of   *)
(* GetNextPeer called directly ends its caller; a panic inside ServeHTTP   *)
(* is recovered by net/http, which drops the connection and serves on.     *)
(***************************************************************************)
MaxBackends == 3
MaxLbCalls == 4

CallerDied == peer = DivideByZero /\ reply = NoReply

Picked(p) == IF p.kind = "backend" THEN Append(picked, p.idx) ELSE picked

CallAddBackend(alive) ==
    /\ ~CallerDied
    /\ Len(backends) < MaxBackends
    /\ backends' = Append(backends, alive)
    /\ picked' = <<>>
    /\ UNCHANGED <<current, peer, reply, lbCalls>>
    /\ UNCHANGED <<codecVars, builderVars, serverVars>>

CallSetAlive(idx, alive) ==
    /\ ~CallerDied
    /\ backends' = [backends EXCEPT ![idx + 1] = alive]
    /\ picked' = <<>>
    /\ UNCHANGED <<current, peer, reply, lbCalls>>
    /\ UNCHANGED <<codecVars, builderVars, serverVars>>

CallGetNextPeer ==
    /\ ~CallerDied
    /\ lbCalls < MaxLbCalls
    /\ LET g == GetNextPeer(backends, current) IN
        /\ peer' = g.peer
        /\ current' = g.current
        /\ picked' = Picked(g.peer)
    /\ reply' = NoReply
    /\ lbCalls' = lbCalls + 1
    /\ UNCHANGED backends
    /\ UNCHANGED <<codecVars, builderVars, serverVars>>

CallServeHTTP ==
    /\ ~CallerDied
    /\ lbCalls < MaxLbCalls
    /\ LET h == ServeHTTP(backends, current) IN
        /\ peer' = h.peer
        /\ current' = h.current
        /\ picked' = Picked(h.peer)
        /\ reply' = h.reply
    /\ lbCalls' = lbCalls + 1
    /\ UNCHANGED backends
    /\ UNCHANGED <<codecVars, builderVars, serverVars>>

InitBalancer == CodecIdle /\ BuilderIdle /\ ServerIdle /\ BalancerIdle

NextBalancer ==
    \/ \E alive \in BOOLEAN : CallAddBackend(alive)
    \/ \E idx \in 0..(Len(backends) - 1), alive \in BOOLEAN :
           CallSetAlive(idx, alive)
    \/ CallGetNextPeer
    \/ CallServeHTTP

SpecBalancer == InitBalancer /\ [][NextBalancer]_vars

(***************************************************************************)
(* Properties of the decoder                                               *)
(***************************************************************************)
\* the target of the pointer that ends the name starting at off, -1 when the
\* name does not end with a pointer that lies inside the buffer
RECURSIVE PointerOf(_, _)
PointerOf(buf, off) ==
    IF off >= Len(buf) THEN -1
    ELSE LET l == buf[off + 1] IN
         IF l = 0 THEN -1
         ELSE IF l >= 192
         THEN IF off + 1 >= Len(buf) THEN -1 ELSE (l % 64) * 256 + buf[off + 2]
         ELSE IF off + l + 1 > Len(buf) THEN -1
         ELSE PointerOf(buf, off + l + 1)

\* the chain of pointers followed from off comes back to an offset of visited
RECURSIVE ChainRevisits(_, _, _)
ChainRevisits(buf, off, visited) ==
    LET t == PointerOf(buf, off) IN
    IF t = -1 THEN FALSE
    ELSE IF t \in visited THEN TRUE
    ELSE ChainRevisits(buf, t, visited \cup {t})

\* an error value returned to the caller
ReturnedErrors == {"unexpected end of data", "invalid compression pointer",
                   "label extends beyond data",
                   "not enough data for question type and class",
                   "message too short"}

\* C1: name decoding returns an error, after a bounded number of hops, for
\* every buffer whose pointer chain targets its own offset or revisits an
\* offset; neither parseDomainName nor ParseDNSMessage recurses without end.
C1_PointerCycleReturnsError ==
    /\ (nameRes # Unset /\ ChainRevisits(data, offset, {offset}))
           => nameRes.err \in ReturnedErrors
    /\ msgRes # Unset => msgRes.err \in ReturnedErrors \cup {None}

\* the name at off is written literally: labels of 1..63 bytes and a
\* terminator, all inside the buffer
RECURSIVE LiteralAt(_, _)
LiteralAt(buf, off) ==
    IF off >= Len(buf) THEN FALSE
    ELSE LET l == buf[off + 1] IN
         IF l = 0 THEN TRUE
         ELSE IF l > 63 \/ off + l + 1 > Len(buf) THEN FALSE
         ELSE LiteralAt(buf, off + l + 1)

\* the occurrence decoded at offset is a lone compression pointer to a
\* literally written name
PointerToLiteral ==
    /\ nameRes # Unset
    /\ offset + 1 < Len(data)
    /\ data[offset + 1] >= 192
    /\ LiteralAt(data, (data[offset + 1] % 64) * 256 + data[offset + 2])

\* C10: an occurrence made only of a compression pointer to a literally
\* written name decodes to the same string as the literal occurrence.
C10_PointerDecodesAsLiteral ==
    PointerToLiteral =>
        LET lit == parseDomainName(data, (data[offset + 1] % 64) * 256 + data[offset + 2]) IN
        /\ lit.err = None
        /\ nameRes.err = None
        /\ nameRes.name = lit.name

\* a pointer to a literal name of several labels has been decoded
C10_Witness ==
    /\ PointerToLiteral
    /\ nameRes.err = None
    /\ Len(Split(nameRes.name)) >= 2
    /\ nameRes.name # <<Dot>>

\* a pointer to the literal root name has been decoded
C10_WitnessRoot ==
    /\ PointerToLiteral
    /\ data[(data[offset + 1] % 64) * 256 + data[offset + 2] + 1] = 0

\* C3: decoding the encoding of a well-formed message succeeds and gives
\* back its six header fields, its question list and its answer list.
C3_RoundTrip ==
    (msg # Unset /\ msgRes # Unset) =>
        /\ msgRes.err = None
        /\ msgRes.msg.Header = msg.Header
        /\ msgRes.msg.Questions = msg.Questions
        /\ msgRes.msg.Answers = msg.Answers

(***************************************************************************)
(* Properties of the response builder                                      *)
(***************************************************************************)
\* q asks for type 1, class 1
AsksAddress(q) == q.Type = 1 /\ q.Class = 1

\* the table holds a type 1 record under the lower-cased name of q
StoredFor(q) ==
    /\ ToLower(q.Name) \in DOMAIN records
    /\ 1 \in DOMAIN records[ToLower(q.Name)]

Answerable(q) == AsksAddress(q) /\ StoredFor(q)

\* the address questions of qs, in order
RECURSIVE AskedQuestions(_)
AskedQuestions(qs) ==
    IF Len(qs) = 0 THEN <<>>
    ELSE IF AsksAddress(Head(qs)) THEN <<Head(qs)>> \o AskedQuestions(Tail(qs))
    ELSE AskedQuestions(Tail(qs))

\* the answerable questions of qs, in order
RECURSIVE AnswerableQuestions(_)
AnswerableQuestions(qs) ==
    IF Len(qs) = 0 THEN <<>>
    ELSE IF Answerable(Head(qs)) THEN <<Head(qs)>> \o AnswerableQuestions(Tail(qs))
    ELSE AnswerableQuestions(Tail(qs))

\* C5: a response has flags 0x8183 and answer count 0 when no question
\* produced an answer, and its two low flag bits are 0 when one did.
C5_NXDOMAINPolicy ==
    response # Unset =>
        IF \A i \in 1..Len(query.Questions) : ~Answerable(query.Questions[i])
        THEN /\ response.Header.Flags = 33155
             /\ response.Header.Flags % 4 = 3
             /\ response.Header.ANCount = 0
             /\ response.Answers = <<>>
        ELSE /\ response.Header.Flags % 4 = 0
             /\ response.Answers # <<>>

\* a response to an address question for a name the table does not hold
C5_Witness ==
    /\ response # Unset
    /\ \E i \in 1..Len(query.Questions) : AsksAddress(query.Questions[i])
    /\ \A i \in 1..Len(query.Questions) : ~Answerable(query.Questions[i])

\* C6: a single question of type 1, class 1 for a stored name is answered
\* with id, flags 0x8180, counts 1/1 and one record (name, 1, 1, 300, data).
C6_PositiveResolution ==
    (response # Unset /\ Len(query.Questions) = 1 /\ Answerable(query.Questions[1])) =>
        response =
            [Header |-> [ID |-> query.Header.ID, Flags |-> 33152, QDCount |-> 1,
                         ANCount |-> 1, NSCount |-> 0, ARCount |-> 0],
             Questions |-> query.Questions,
             Answers |-> <<[Name |-> query.Questions[1].Name, Type |-> 1, Class |-> 1,
                            TTL |-> 300,
                            Data |-> records[ToLower(query.Questions[1].Name)][1]]>>]

\* a response to a single answerable question
C6_Witness ==
    /\ response # Unset
    /\ Len(query.Questions) = 1
    /\ Answerable(query.Questions[1])

\* C7: a question of another type or class causes no lookup and no answer,
\* even when the table holds an address record for its name; a query of
\* such questions only gets answer count 0 and the 0x0003 bits.
C7_UnsupportedNeverAnswered ==
    query # Unset =>
        LET asked == AskedQuestions(query.Questions) IN
        /\ Len(lookups) <= Len(asked)
        /\ response # Unset =>
              /\ Len(response.Answers) <= Len(asked)
              /\ \A j \in 1..Len(response.Answers) :
                    \E i \in 1..Len(asked) : asked[i].Name = response.Answers[j].Name
        /\ asked = <<>> =>
              /\ lookups = <<>>
              /\ response # Unset
              /\ response.Header.ANCount = 0
              /\ response.Answers = <<>>
              /\ response.Header.Flags % 4 = 3

\* a query of unsupported questions only, one of them for a stored name
C7_Witness ==
    /\ response # Unset
    /\ \A i \in 1..Len(query.Questions) : ~AsksAddress(query.Questions[i])
    /\ \E i \in 1..Len(query.Questions) :
          /\ query.Questions[i].Type = 28
          /\ StoredFor(query.Questions[i])

\* the lookup made for an address question
LookupFor(q) == [domain |-> ToLower(q.Name), recordType |-> 1]

\* C8: the table is consulted with the lower-cased name of every address
\* question, so every casing of a name stored in lower case is resolved, and
\* each answer carries the question's name in its original casing.
C8_CaseInsensitiveLookup ==
    response # Unset =>
        LET asked == AskedQuestions(query.Questions)
            answered == AnswerableQuestions(query.Questions)
        IN /\ lookups = [i \in 1..Len(asked) |-> LookupFor(asked[i])]
           /\ Len(response.Answers) = Len(answered)
           /\ \A i \in 1..Len(answered) :
                 /\ response.Answers[i].Name = answered[i].Name
                 /\ response.Answers[i].Data = records[ToLower(answered[i].Name)][1]

\* a question in mixed case has been answered under its own casing
C8_Witness ==
    /\ response # Unset
    /\ Len(response.Answers) >= 1
    /\ response.Answers[1].Name # ToLower(response.Answers[1].Name)

\* C9: the response carries the query's id, question count and question
\* list unchanged, whether or not a question is answered.
C9_Echo ==
    response # Unset =>
        /\ response.Header.ID = query.Header.ID
        /\ response.Header.QDCount = query.Header.QDCount
        /\ response.Questions = query.Questions

\* a response that echoes two questions of which one is answered
C9_Witness ==
    /\ response # Unset
    /\ Len(response.Questions) = 2
    /\ Len(response.Answers) = 1
    /\ response.Header.ID = 43981

(***************************************************************************)
(* Properties of the listener                                              *)
(***************************************************************************)
\* C2: once Stop has closed the socket and the receive call has failed on
\* it, the receive loop has exited: Start is no longer in its loop, reading
\* the closed socket again.
C2_LoopExitsOnClose ==
    closedReads > 0 => startPc # "read"

\* the handlers that are inside LookupRecord
InLookup == {i \in 1..Len(handlers) : handlers[i].pc = "lookup"}

\* the callers that are inside AddRecord or RemoveRecord
InMutation == {w \in Callers : writing[w] # Unset}

\* C4: while a caller is inside AddRecord or RemoveRecord, no handler is
\* inside LookupRecord and no other caller is inside a mutation; lookups
\* overlap only with other lookups.
C4_NoOverlap ==
    InMutation # {} => /\ InLookup = {}
                       /\ Cardinality(InMutation) = 1

(***************************************************************************)
(* Properties of the codec, continued                                      *)
(***************************************************************************)
\* C11: ParseDNSMessage returns the "too short" error and no message for
\* every buffer of fewer than 12 bytes, and an empty question list for a
\* buffer of exactly 12 bytes whose question count is 0.
C11_MinimumSize ==
    msgRes # Unset =>
        /\ Len(data) < 12 => /\ msgRes.err = "message too short"
                             /\ msgRes.msg = Unset
        /\ (Len(data) = 12 /\ data[5] = 0 /\ data[6] = 0) =>
               /\ msgRes.err = None
               /\ msgRes.msg.Questions = <<>>

\* a buffer of 11 bytes has been refused
C11_Witness ==
    /\ msgRes # Unset
    /\ Len(data) = 11
    /\ msgRes.err # None

\* a header alone, with question count 0, has been decoded
C11_WitnessHeaderOnly ==
    /\ msgRes # Unset
    /\ Len(data) = 12
    /\ msgRes.err = None

\* the offset after the name written at off: its labels and its terminator
\* or the pointer that ends it; -1 when the buffer ends before
RECURSIVE SkipName(_, _)
SkipName(buf, off) ==
    IF off >= Len(buf) THEN -1
    ELSE LET l == buf[off + 1] IN
         IF l = 0 THEN off + 1
         ELSE IF l >= 192 THEN (IF off + 2 > Len(buf) THEN -1 ELSE off + 2)
         ELSE IF off + 1 + l > Len(buf) THEN -1
         ELSE SkipName(buf, off + 1 + l)

\* the offset after the n questions written from off, -1 when the buffer
\* ends before
RECURSIVE QuestionsEnd(_, _, _)
QuestionsEnd(buf, off, n) ==
    IF n = 0 THEN off
    ELSE LET e == SkipName(buf, off) IN
         IF e = -1 \/ e + 4 > Len(buf) THEN -1
         ELSE QuestionsEnd(buf, e + 4, n - 1)

\* the errors of a question that the buffer ends in
TruncationErrors ==
    {"unexpected end of data", "label extends beyond data",
     "invalid compression pointer",
     "not enough data for question type and class"}

\* the buffer was cut at 12 bytes or more, before the end of its last
\* question, and decoded
CutInQuestions ==
    /\ msgRes # Unset
    /\ offset >= 12
    /\ offset < QuestionsEnd(data, 12, U16(data[5], data[6]))

\* C12: a valid message of at least one question, cut at any length from 12
\* up to but excluding the end of its last question, is refused with a
\* truncation error and no message; no returned message has fewer
\* questions than the header counts.
C12_Truncation ==
    /\ CutInQuestions => /\ msgRes.err \in TruncationErrors
                         /\ msgRes.msg = Unset
    /\ (msgRes # Unset /\ msgRes.err = None) =>
           Len(msgRes.msg.Questions) = msgRes.msg.Header.QDCount

\* a message of two questions was cut inside the type field of the second
C12_Witness ==
    /\ CutInQuestions
    /\ U16(data[5], data[6]) = 2
    /\ offset = QuestionsEnd(data, 12, 2) - 3
    /\ msgRes.err = "not enough data for question type and class"

\* the compressed message was cut between the two bytes of its pointer
C12_WitnessPointer ==
    /\ CutInQuestions
    /\ msgRes.err = "invalid compression pointer"

\* decoding the name at off reads no byte at offset lim or beyond it, in
\* the name or in the names its pointers lead to; seen holds the pointer
\* targets already followed
RECURSIVE NameWithin(_, _, _, _)
NameWithin(buf, off, lim, seen) ==
    IF off >= lim THEN FALSE
    ELSE LET l == buf[off + 1] IN
         IF l = 0 THEN TRUE
         ELSE IF l >= 192
         THEN /\ off + 1 < lim
              /\ LET t == (l % 64) * 256 + buf[off + 2] IN
                 t \in seen \/ NameWithin(buf, t, lim, seen \cup {t})
         ELSE /\ off + 1 + l <= lim
              /\ NameWithin(buf, off + 1 + l, lim, seen)

\* the names of the n questions written from off all lie before lim
RECURSIVE QuestionsWithin(_, _, _, _)
QuestionsWithin(buf, off, n, lim) ==
    IF n = 0 THEN TRUE
    ELSE /\ NameWithin(buf, off, lim, {off})
         /\ QuestionsWithin(buf, SkipName(buf, off) + 4, n - 1, lim)

\* the buffer has been decoded and bytes follow its questions
HasTrailingBytes ==
    /\ msgRes # Unset
    /\ Len(data) >= 12
    /\ QuestionsEnd(data, 12, U16(data[5], data[6])) # -1
    /\ QuestionsEnd(data, 12, U16(data[5], data[6])) < Len(data)

\* the result of decoding the buffer without the bytes after its questions
WithoutTrailingBytes ==
    ParseDNSMessage(SubSeq(data, 1, QuestionsEnd(data, 12, U16(data[5], data[6]))))

LabelsBounded(name) ==
    name # <<Dot>> =>
        \A i \in 1..Len(Split(name)) :
            Len(Split(name)[i]) >= 1 /\ Len(Split(name)[i]) <= 63

\* C14: every label of every name a decode returns is 1 to 63 bytes long,
\* and a name that starts with a length byte in 64..191 is refused.
C14_LabelLengthBound ==
    /\ (nameRes # Unset /\ nameRes.err = None) => LabelsBounded(nameRes.name)
    /\ (nameRes # Unset /\ offset < Len(data)
           /\ data[offset + 1] >= 64 /\ data[offset + 1] <= 191)
          => nameRes.err # None
    /\ (msgRes # Unset /\ msgRes.err = None) =>
          \A i \in 1..Len(msgRes.msg.Questions) :
              LabelsBounded(msgRes.msg.Questions[i].Name)

\* the length byte 64 was taken as the length of a literal label
C14_LongLabelAccepted ==
    /\ nameRes # Unset
    /\ data = LongLabelName
    /\ offset = 0
    /\ nameRes.err = None
    /\ Len(nameRes.name) = 64

\* C15: a bare terminator decodes to ".", the name "." is encoded as a bare
\* terminator, one zero byte, and decoding that encoding gives "." again.
C15_RootName ==
    /\ (nameRes # Unset /\ data = <<0>>) =>
           nameRes.err = None /\ nameRes.name = <<Dot>>
    /\ (nameIn = <<Dot>> /\ data # <<>>) => data = <<0>>
    /\ (nameIn = <<Dot>> /\ nameRes # Unset) =>
           nameRes.err = None /\ nameRes.name = <<Dot>>

\* what is written for one label: its length and its bytes, nothing for a
\* label of more than 63 bytes
Emitted(label) ==
    IF Len(label) <= 63 THEN <<Len(label)>> \o label ELSE <<>>

\* the positions at which a label of s starts: the first position and the
\* one after every dot
LabelStarts(s) == {1} \cup {i + 1 : i \in {j \in 1..Len(s) : s[j] = Dot}}

\* the label of s that starts at position p: the bytes up to the next dot
\* or to the end of s
LabelAt(s, p) ==
    LET dots == {j \in p..Len(s) : s[j] = Dot}
        stop == IF dots = {} THEN Len(s) + 1
                ELSE CHOOSE j \in dots : \A k \in dots : j <= k
    IN SubSeq(s, p, stop - 1)

\* what is written for the labels of s that start at the positions of
\* starts, in the order of the positions, and the zero byte after them
RECURSIVE EncodingFrom(_, _)
EncodingFrom(s, starts) ==
    IF starts = {} THEN <<0>>
    ELSE LET p == CHOOSE q \in starts : \A r \in starts : q <= r IN
         Emitted(LabelAt(s, p)) \o EncodingFrom(s, starts \ {p})

\* C16: EncodeDomainName writes, for each dot-separated label of at most 63
\* bytes, its length byte and its bytes in order, nothing for a longer
\* label, and one zero byte at the end; the empty string gives the single
\* byte 0.
C16_LabelEncoding ==
    data # <<>> =>
        data = (IF nameIn = <<>> THEN <<0>>
                ELSE EncodingFrom(nameIn, LabelStarts(nameIn)))

\* "a.<64 bytes>.A" was encoded: the middle label is dropped
C16_Witness ==
    /\ nameIn = <<97, Dot>> \o Label64 \o <<Dot, 65>>
    /\ data = <<1, 97, 1, 65, 0>>

\* a label of 63 bytes was encoded whole
C16_WitnessLabel63 ==
    /\ nameIn = Label63
    /\ data = <<63>> \o Label63 \o <<0>>

\* the name written in full: its labels with their lengths and a zero byte
LiteralName(n) ==
    IF n = <<>> THEN <<0>> ELSE EncodingFrom(n, LabelStarts(n))

\* seg, read from position i, is made of length bytes below 64, each
\* followed by that many bytes, and ends with a zero byte
RECURSIVE LengthBytesLiteral(_, _)
LengthBytesLiteral(seg, i) ==
    IF i > Len(seg) THEN FALSE
    ELSE IF i = Len(seg) THEN seg[i] = 0
    ELSE /\ seg[i] < 64
         /\ LengthBytesLiteral(seg, i + 1 + seg[i])

\* the offset after the name n written in full at off, -1 when something
\* else is written there
NameWrittenAt(buf, off, n) ==
    LET lit == LiteralName(n) IN
    IF /\ off + Len(lit) <= Len(buf)
       /\ SubSeq(buf, off + 1, off + Len(lit)) = lit
       /\ LengthBytesLiteral(lit, 1)
    THEN off + Len(lit) ELSE -1

\* the offset after the questions qs written from off with their names in
\* full, -1 when they are not
RECURSIVE QuestionsWrittenAt(_, _, _)
QuestionsWrittenAt(buf, off, qs) ==
    IF Len(qs) = 0 THEN off
    ELSE LET e == NameWrittenAt(buf, off, Head(qs).Name) IN
         IF e = -1 THEN -1
         ELSE QuestionsWrittenAt(buf, e + 4, Tail(qs))

\* the same for answers: 10 bytes of type, class, TTL and data length and
\* the data follow each name
RECURSIVE AnswersWrittenAt(_, _, _)
AnswersWrittenAt(buf, off, as) ==
    IF off = -1 THEN -1
    ELSE IF Len(as) = 0 THEN off
    ELSE LET e == NameWrittenAt(buf, off, Head(as).Name) IN
         IF e = -1 THEN -1
         ELSE AnswersWrittenAt(buf, e + 10 + Len(Head(as).Data), Tail(as))

\* C17: in the output of EncodeDNSMessage every question and answer name is
\* written in full, as labels with length bytes below 64 and a zero byte,
\* also when the same name was written earlier in the message; no length
\* byte has its top two bits set.
C17_NoCompression ==
    (msg # Unset /\ data # <<>>) =>
        AnswersWrittenAt(data, QuestionsWrittenAt(data, 12, msg.Questions),
                         msg.Answers) = Len(data)

\* a message whose two questions and whose answer carry the same name
\* "A.a" has been encoded
C17_Witness ==
    /\ msg # Unset /\ data # <<>>
    /\ Len(msg.Questions) = 2 /\ Len(msg.Answers) = 1
    /\ msg.Questions[1].Name = <<65, Dot, 97>>
    /\ msg.Questions[2].Name = <<65, Dot, 97>>
    /\ msg.Answers[1].Name = <<65, Dot, 97>>

\* the datagram cannot be decoded: it is under 12 bytes, or it ends before
\* its questions do, or a question's name leads to an offset outside of it
Malformed(dgram) ==
    \/ Len(dgram) < 12
    \/ QuestionsEnd(dgram, 12, U16(dgram[5], dgram[6])) = -1
    \/ ~QuestionsWithin(dgram, 12, U16(dgram[5], dgram[6]), Len(dgram))

\* the handlers of datagrams from address a that have sent their response
SentBy(a) ==
    {i \in 1..Len(handlers) : handlers[i].addr = a /\ handlers[i].outcome = "sent"}

\* C18: the handler of a datagram that cannot be decoded ends without
\* writing to the socket, and no datagram goes to its client; a handler
\* whose send failed has ended after that one write.
C18_DropOnMalformedInput ==
    /\ \A i \in 1..Len(handlers) :
          /\ Malformed(handlers[i].data) =>
                /\ handlers[i].writes = 0
                /\ handlers[i].outcome \in {"running", "dropped"}
                /\ \A k \in 1..Len(sent) : sent[k].addr # handlers[i].addr
          /\ handlers[i].outcome = "sendfailed" =>
                handlers[i].pc = "done" /\ handlers[i].writes = 1
          /\ handlers[i].writes <= 1
    /\ \A k \in 1..Len(sent) :
          Cardinality({j \in 1..Len(sent) : sent[j].addr = sent[k].addr})
             = Cardinality(SentBy(sent[k].addr))

\* the datagrams of 3 bytes and with the pointer beyond the buffer have
\* both been dropped
C18_Witness ==
    /\ Len(handlers) = 2
    /\ handlers[1].addr = "c4" /\ handlers[1].outcome = "dropped"
    /\ handlers[2].addr = "c7" /\ handlers[2].outcome = "dropped"

\* a send failed on the open socket and the handler has ended
C18_WitnessSendFailed ==
    /\ conn = "open"
    /\ Len(handlers) >= 1
    /\ handlers[1].outcome = "sendfailed"

\* C19: while the socket is open, a failed receive call leaves the receive
\* loop running: Start is at its read again and the next datagram that
\* arrives is received and handed to a handler.
C19_ReadErrorsDoNotEndLoop ==
    (readErrors > 0 /\ conn = "open" /\ ~crashed) =>
        /\ startPc = "read"
        /\ Len(handlers) < MaxHandlers => ENABLED StartReceive

\* a datagram received after a failed read has been answered
C19_Witness ==
    \E i \in 1..Len(handlers) :
        /\ handlers[i].errorsBefore >= 1
        /\ handlers[i].outcome = "sent"

\* the handlers that have not finished
InFlight == {i \in 1..Len(handlers) : handlers[i].pc # "done"}

\* C20: whatever the handlers started earlier are doing, finished or not,
\* the receive loop at its read on the open socket takes the next datagram
\* and starts a handler for it; only the MaxHandlers handlers of the model
\* limit the handlers in flight, the code has no limit.  (That a later
\* datagram is answered before an earlier one is the state C20_Witness.)
C20_NonBlockingDispatch ==
    (~crashed /\ startPc = "read" /\ conn = "open" /\ Len(handlers) < MaxHandlers)
        => ENABLED StartReceive

\* the last datagram received has been answered while the first one's
\* handler has not started, with MaxHandlers handlers dispatched
C20_Witness ==
    /\ Len(handlers) = MaxHandlers
    /\ handlers[1].pc = "start"
    /\ handlers[Len(handlers)].outcome = "sent"
    /\ Len(sent) = 1

\* MaxHandlers handlers are in flight at once
C20_WitnessAllInFlight ==
    Cardinality(InFlight) = MaxHandlers

\* C21: after Stop every handler runs to its end: one that has ended has
\* sent its response, failed on the send or dropped its datagram, and one
\* that has not ended is still running in a live process.
C21_StopDoesNotCancel ==
    stopPc = "done" =>
        \A i \in 1..Len(handlers) :
            IF handlers[i].pc = "done"
            THEN handlers[i].outcome \in {"sent", "sendfailed", "dropped"}
            ELSE ~crashed

\* a handler dispatched before Stop has gone on after it and failed on its
\* send to the closed socket
C21_RunsOnAfterStop ==
    /\ stopPc = "done" /\ conn = "closed"
    /\ Len(handlers) >= 1
    /\ handlers[1].outcome = "sendfailed"
    /\ ~crashed

\* C22: when resolving or binding fails, Start has returned the error: it
\* is not in the receive loop and takes no further step, no read was made
\* and no handler was dispatched.
C22_BindFailureIsFatal ==
    (startPc # "idle" /\ conn = "nil") =>
        /\ startPc = "failed"
        /\ readErrors = 0
        /\ handlers = <<>>
        /\ sent = <<>>
        /\ ~ENABLED (StartListen \/ StartReceive \/ StartReadError)

\* the bind failed and Stop was called afterwards
C22_Witness ==
    /\ startPc = "failed"
    /\ conn = "nil"
    /\ stopPc = "done"

(***************************************************************************)
(* Properties of the record store                                          *)
(***************************************************************************)
\* the pairs of domain and record type looked at
StorePairs == (SeedNames \cup StoreDomains) \X {TYPE_A, TYPE_AAAA}

\* what a lookup of p gives in the table recs
Looked(recs, p) == LookupRecord(recs, p[1], p[2])

\* every pair but p is looked up to the same result before and after
OthersKept(p) ==
    \A o \in StorePairs \ {p} : Looked(records', o) = Looked(records, o)

\* C23: the store NewRecordStore makes holds the five seed records and
\* nothing else; AddRecord(d, t, x) makes the lookup of (d, t) give x,
\* RemoveRecord(d, t) makes it give not found, and both leave the lookup
\* of every other pair as it was: a lookup gives the data of the most
\* recent AddRecord on its pair, the seed record when no call was made on
\* the pair, and not found otherwise.
C23_StoreSemantics ==
    /\ \A p \in StorePairs :
          Looked(NewRecordStore, p) =
             (IF p[1] \in SeedNames /\ p[2] = 1
              THEN [found |-> TRUE, data |-> SeedData(p[1])]
              ELSE [found |-> FALSE, data |-> <<>>])
    /\ [][\A p \in StorePairs :
            /\ \A x \in StoreData :
                  records' = AddRecord(records, p[1], p[2], x) =>
                     /\ Looked(records', p) = [found |-> TRUE, data |-> x]
                     /\ OthersKept(p)
            /\ records' = RemoveRecord(records, p[1], p[2]) =>
                  /\ Looked(records', p) = [found |-> FALSE, data |-> <<>>]
                  /\ OthersKept(p)]_vars

\* a record was added under a second type of a seed domain and the seed
\* record of that domain was then removed: the added one is still found
C23_Witness ==
    /\ ops = 2
    /\ Looked(records, <<WwwExampleCom, TYPE_AAAA>>).found
    /\ ~Looked(records, <<WwwExampleCom, TYPE_A>>).found

Unanswerable(h) == \A k \in 1..Len(h.questions) : ~Answerable(h.questions[k])

\* the datagrams sent to address a
SentTo(a) == {m \in 1..Len(sent) : sent[m].addr = a}

C26_HeaderCounts ==
    \A m \in 1..Len(sent) :
        LET b == sent[m].bytes IN
        /\ response # Unset /\ msgRes.err = None
        /\ response.Questions = msgRes.msg.Questions
        /\ response.Header.QDCount = Len(response.Questions)
        /\ response.Header.ANCount = Len(response.Answers)
        /\ response.Header.NSCount = 0 /\ response.Header.ARCount = 0
        /\ U16(b[5], b[6]) = Len(response.Questions)
        /\ U16(b[7], b[8]) = Len(response.Answers)
        /\ U16(b[9], b[10]) = 0 /\ U16(b[11], b[12]) = 0

\* a response with two questions and two answers was sent for a query
\* whose header counts one answer, one authority and one additional record
C26_Witness ==
    /\ Len(sent) = 1
    /\ data[8] = 1 /\ data[10] = 1 /\ data[12] = 1
    /\ Len(response.Questions) = 2
    /\ Len(response.Answers) = 2

\* a response of fewer than two questions and no answer was sent
C26_WitnessNoAnswer ==
    /\ Len(sent) = 1
    /\ Len(response.Questions) < 2
    /\ response.Answers = <<>>

(***************************************************************************)
(* Properties of compression pointers                                      *)
(***************************************************************************)
\* the 14-bit target of the pointer at off
TargetAt(buf, off) == (buf[off + 1] % 64) * 256 + buf[off + 2]

\* Walking the name at off over its labels and along its pointers comes to
\* a pointer whose second byte lies past the end of the buffer or whose
\* target is not an offset of the buffer.  visited holds the offsets the
\* walk started from, a chain that comes back to one of them reaches no
\* such pointer.
RECURSIVE BadPointerReached(_, _, _)
BadPointerReached(buf, off, visited) ==
    IF off >= Len(buf) THEN FALSE
    ELSE LET l == buf[off + 1] IN
         IF l = 0 THEN FALSE
         ELSE IF l >= 192
         THEN IF off + 1 >= Len(buf) THEN TRUE
              ELSE IF TargetAt(buf, off) >= Len(buf) THEN TRUE
              ELSE IF TargetAt(buf, off) \in visited THEN FALSE
              ELSE BadPointerReached(buf, TargetAt(buf, off),
                                     visited \cup {TargetAt(buf, off)})
         ELSE IF off + l + 1 > Len(buf) THEN FALSE
         ELSE BadPointerReached(buf, off + l + 1, visited)

\* the errors of a pointer that is cut or leads out of the buffer
PointerErrors == {"invalid compression pointer", "unexpected end of data"}

\* C27: decoding a name that comes to a pointer whose target is at or
\* beyond the end of the buffer, or whose second byte is missing, returns
\* an error and no name, and so does decoding a message whose first
\* question holds such a name.
C27_OutOfRangePointer ==
    /\ (nameRes # Unset /\ BadPointerReached(data, offset, {offset})) =>
          /\ nameRes.err \in PointerErrors
          /\ nameRes.name = <<>>
    /\ (msgRes # Unset /\ Len(data) >= 12 /\ U16(data[5], data[6]) >= 1
          /\ BadPointerReached(data, 12, {12})) =>
          /\ msgRes.err \in PointerErrors
          /\ msgRes.msg = Unset

\* a label and a pointer inside the buffer led to a pointer out of it
C27_Witness ==
    /\ nameRes # Unset
    /\ BadPointerReached(data, offset, {offset})
    /\ data[offset + 1] < 192
    /\ nameRes.err = "unexpected end of data"
    /\ \E p \in 0..Len(data) - 2 :
          data[p + 1] >= 192 /\ TargetAt(data, p) < Len(data)
             /\ BadPointerReached(data, p, {p})

\* the buffer ends after the first byte of the pointer
C27_WitnessCut ==
    /\ nameRes # Unset
    /\ BadPointerReached(data, offset, {offset})
    /\ nameRes.err = "invalid compression pointer"

\* a message whose question is a pointer to offset 256 was refused
C27_WitnessMessage ==
    /\ msgRes # Unset /\ Len(data) >= 14
    /\ data[13] = 193
    /\ msgRes.err = "unexpected end of data"

\* The labels of the name written at off, read off the wire: the literal
\* labels in order and, after a pointer, the labels of the name at its
\* target.  ok is FALSE when the name runs out of the buffer or its
\* pointers come back to an offset of visited.
RECURSIVE WireLabels(_, _, _)
WireLabels(buf, off, visited) ==
    IF off >= Len(buf) THEN [ok |-> FALSE, labels |-> <<>>]
    ELSE LET l == buf[off + 1] IN
         IF l = 0 THEN [ok |-> TRUE, labels |-> <<>>]
         ELSE IF l >= 192
         THEN IF off + 1 >= Len(buf) THEN [ok |-> FALSE, labels |-> <<>>]
              ELSE IF TargetAt(buf, off) >= Len(buf) \/ TargetAt(buf, off) \in visited
              THEN [ok |-> FALSE, labels |-> <<>>]
              ELSE WireLabels(buf, TargetAt(buf, off), visited \cup {TargetAt(buf, off)})
         ELSE IF off + l + 1 > Len(buf) THEN [ok |-> FALSE, labels |-> <<>>]
         ELSE LET rest == WireLabels(buf, off + l + 1, visited) IN
              [ok |-> rest.ok,
               labels |-> <<SubSeq(buf, off + 2, off + 1 + l)>> \o rest.labels]

\* the name of a list of labels: "." for none, else the labels joined
NameOfLabels(labels) == IF labels = <<>> THEN <<Dot>> ELSE Join(labels)

\* C28: a name of k >= 0 literal labels followed by a pointer decodes to
\* those labels followed by the labels of the name at the target, joined
\* with dots; a target that is the root name adds nothing, so a label
\* followed by a pointer to a bare terminator decodes to that label alone.
C28_PointerSplice ==
    (nameRes # Unset /\ PointerOf(data, offset) # -1
        /\ WireLabels(data, offset, {offset}).ok) =>
        /\ nameRes.err = None
        /\ nameRes.name = NameOfLabels(WireLabels(data, offset, {offset}).labels)

\* the label "a" followed by a pointer to a bare terminator has been
\* decoded to "a.."
C28_SpliceOntoRoot ==
    /\ nameRes # Unset /\ nameRes.err = None
    /\ offset + 4 <= Len(data)
    /\ data[offset + 1] = 1 /\ data[offset + 2] = 97 /\ data[offset + 3] = 192
    /\ TargetAt(data, offset + 2) < Len(data)
    /\ data[TargetAt(data, offset + 2) + 1] = 0
    /\ nameRes.name = <<97, Dot, Dot>>

\* a label followed by a pointer to a name of one label has been decoded
\* to the two labels joined by a dot
C28_SpliceOntoName ==
    /\ nameRes # Unset /\ nameRes.err = None
    /\ offset + 4 <= Len(data)
    /\ data[offset + 1] = 1 /\ data[offset + 3] = 192
    /\ nameRes.name = <<97, Dot, 97>>

\* the offset of the pointer that ends the name written at off, -1 when
\* the name has none inside the buffer
RECURSIVE PointerPos(_, _)
PointerPos(buf, off) ==
    IF off >= Len(buf) THEN -1
    ELSE LET l == buf[off + 1] IN
         IF l = 0 THEN -1
         ELSE IF l >= 192 THEN (IF off + 1 >= Len(buf) THEN -1 ELSE off)
         ELSE IF off + l + 1 > Len(buf) THEN -1
         ELSE PointerPos(buf, off + l + 1)

\* C29: a name with a pointer at offset p is decoded with next offset
\* p + 2, whatever was followed at the target; the type and class of a
\* question with such a name are read from the four bytes at p + 2 and
\* the next question is decoded from p + 6.
C29_PointerEndsName ==
    /\ (nameRes # Unset /\ nameRes.err = None /\ PointerPos(data, offset) # -1) =>
          nameRes.offset = PointerPos(data, offset) + 2
    /\ (msgRes # Unset /\ msgRes.err = None /\ msgRes.msg.Header.QDCount >= 1
          /\ PointerPos(data, 12) # -1) =>
          LET at == PointerPos(data, 12) IN
          /\ msgRes.msg.Questions[1].Type = U16(data[at + 3], data[at + 4])
          /\ msgRes.msg.Questions[1].Class = U16(data[at + 5], data[at + 6])
          /\ msgRes.msg.Header.QDCount >= 2 =>
                /\ parseQuestions(data, at + 6).err = None
                /\ msgRes.msg.Questions[2] = parseQuestions(data, at + 6).question

\* a name of a label and a pointer to a name of two labels and a
\* terminator that lies before it was decoded
C29_Witness ==
    /\ nameRes # Unset /\ nameRes.err = None
    /\ PointerPos(data, offset) > offset
    /\ TargetAt(data, PointerPos(data, offset)) < offset
    /\ Len(WireLabels(data, TargetAt(data, PointerPos(data, offset)), {}).labels) >= 2

\* two questions were decoded of which the first is a pointer
C29_WitnessNextQuestion ==
    /\ msgRes # Unset /\ msgRes.err = None
    /\ Len(msgRes.msg.Questions) = 2
    /\ data[13] >= 192

(***************************************************************************)
(* Properties of queries of several questions                              *)
(***************************************************************************)
\* the record that answers question q from the table
AnswerFor(q) ==
    [Name |-> q.Name, Type |-> 1, Class |-> 1, TTL |-> 300,
     Data |-> records[ToLower(q.Name)][1]]

\* C30: the answer list of a response holds one record for every question
\* of type 1 and class 1 whose lower-cased name has an address record in
\* the table, in the order of those questions and once for every
\* repetition, and the answer count is the number of those questions.
C30_MultiQuestion ==
    response # Unset =>
        LET answered == AnswerableQuestions(query.Questions) IN
        /\ response.Answers = [i \in 1..Len(answered) |-> AnswerFor(answered[i])]
        /\ response.Header.ANCount = Len(answered)

\* three questions: the first and the third are the same answerable
\* question, the second asks for another type; two answers were given
C30_Witness ==
    /\ response # Unset
    /\ Len(query.Questions) = 3
    /\ query.Questions[1] = query.Questions[3]
    /\ Answerable(query.Questions[1])
    /\ ~AsksAddress(query.Questions[2])
    /\ Len(response.Answers) = 2

\* a question for a name the table holds under type 28 only got no
\* answer, the question after it was answered
C30_WitnessOtherType ==
    /\ response # Unset
    /\ Len(query.Questions) >= 2
    /\ AsksAddress(query.Questions[1])
    /\ query.Questions[1].Name = NameX
    /\ NameX \in DOMAIN records
    /\ ~Answerable(query.Questions[1])
    /\ Answerable(query.Questions[2])
    /\ Len(response.Answers) >= 1

(***************************************************************************)
(* Properties of the handlers running side by side                         *)
(***************************************************************************)
\* the handler has decoded its datagram
Decoded(h) == h.pc \in {"build", "lookup"} \/ h.outcome \in {"sent", "sendfailed", "panic"}

\* the transaction id in the first two bytes of a datagram
IdOf(bytes) == U16(bytes[1], bytes[2])

\* every datagram sent went to the address of a handler that has sent and
\* carries the id of that handler's datagram, and every address got as
\* many datagrams as handlers of it have sent
RoutedToOrigin ==
    /\ \A k \in 1..Len(sent) :
          \E i \in 1..Len(handlers) :
              /\ handlers[i].outcome = "sent"
              /\ handlers[i].addr = sent[k].addr
              /\ IdOf(handlers[i].data) = IdOf(sent[k].bytes)
    /\ \A k \in 1..Len(sent) :
          Cardinality(SentTo(sent[k].addr)) = Cardinality(SentBy(sent[k].addr))

\* C31: every datagram that was decoded gets one send attempt: its
\* handler has made one when it has ended and is still able to make it
\* when it has not; what is sent goes to the address the datagram came
\* from and carries its id.
C31_ResponseRouting ==
    /\ \A i \in 1..Len(handlers) :
          Decoded(handlers[i]) =>
             IF handlers[i].pc = "done"
             THEN handlers[i].writes = 1
             ELSE handlers[i].writes = 0 /\ ~crashed
    /\ RoutedToOrigin

\* two handlers have sent in the order opposite to their dispatch, each to
\* its own client with its own id
C31_CrossedSends ==
    /\ Len(handlers) = 2 /\ Len(sent) = 2
    /\ handlers[1].addr # handlers[2].addr
    /\ sent[1].addr = handlers[2].addr
    /\ sent[2].addr = handlers[1].addr
    /\ IdOf(sent[1].bytes) = IdOf(handlers[2].data)

\* a handler that has decoded its datagram was stopped before its send by
\* the crash of another handler
C31_DecodedNeverSent ==
    /\ crashed
    /\ \E i \in 1..Len(handlers) :
          handlers[i].pc = "build" /\ handlers[i].writes = 0

(***************************************************************************)
(* Properties of Stop                                                      *)
(***************************************************************************)
\* C32: once Stop has returned no datagram is received and handed to a
\* handler, whether Stop ran after or before Start bound the socket.
C32_StopIsEffective ==
    [][stopPc = "done" => Len(handlers') = Len(handlers)]_vars

\* Stop returned before Start bound the socket; Start then bound it and a
\* datagram was received and handed to a handler
C32_ReceivedAfterStop ==
    /\ stopPc = "done"
    /\ conn = "open"
    /\ startPc = "read"
    /\ Len(handlers) >= 1

\* Stop closed the bound socket and the loop is still at its read
C32_StoppedAfterBind ==
    /\ stopPc = "done"
    /\ conn = "closed"
    /\ startPc = "read"

(***************************************************************************)
(* Properties of the builder over the contents of the table                *)
(***************************************************************************)
\* C33: whatever AddRecord has stored, data under 4 bytes included, a call
\* of createDNSResponse returns a response and does not fail.
C33_BuilderIsTotal ==
    query # Unset => (~panicked /\ response # Unset)

\* the call for an address question whose name holds a record of 2 bytes
\* ended in the index-out-of-range panic
C33_PanicOnShortRecord ==
    /\ query # Unset /\ panicked /\ response = Unset
    /\ \E i \in 1..Len(query.Questions) :
          /\ Answerable(query.Questions[i])
          /\ Len(records[ToLower(query.Questions[i].Name)][1]) = 2

(***************************************************************************)
(* Properties of the response on the wire                                  *)
(***************************************************************************)
\* C34: decoding the bytes of a response that was sent succeeds and gives
\* the question list that decoding the query gave: the same names, types
\* and classes in the same order.
C34_QuestionEchoOnWire ==
    \A m \in 1..Len(sent) :
        /\ ParseDNSMessage(sent[m].bytes).err = None
        /\ ParseDNSMessage(sent[m].bytes).msg.Questions = msgRes.msg.Questions

\* the response to a query for the root name carries the name as three
\* zero bytes and decodes to a question of type 0
C34_RootEchoedWrong ==
    /\ Len(sent) = 1
    /\ msgRes.msg.Questions = <<[Name |-> <<Dot>>, Type |-> 1, Class |-> 1]>>
    /\ Len(data) = 17
    /\ SubSeq(sent[1].bytes, 13, 19) = <<0, 0, 0, 0, 1, 0, 1>>
    /\ ParseDNSMessage(sent[1].bytes).msg.Questions[1].Type = 0

\* the response to a query for a label of 64 bytes carries the empty name
C34_LongLabelDropped ==
    /\ Len(sent) = 1
    /\ Len(msgRes.msg.Questions) = 1
    /\ Len(msgRes.msg.Questions[1].Name) = 64
    /\ ParseDNSMessage(sent[1].bytes).msg.Questions[1].Name = <<Dot>>

\* the response to a query for the label "a.b" carries the two labels "a"
\* and "b", which decode to the same string
C34_DottedLabelEchoed ==
    /\ Len(sent) = 1
    /\ data \in OddLabelQueries
    /\ data[13] = 3
    /\ SubSeq(sent[1].bytes, 13, 17) = <<1, 97, 1, 98, 0>>
    /\ ParseDNSMessage(sent[1].bytes).msg.Questions = msgRes.msg.Questions

(***************************************************************************)
(* Properties of the keys of the record table                              *)
(***************************************************************************)
\* the table holds an address record under some casing of the name of q
StoredInSomeCase(q) ==
    \E k \in DOMAIN records : ToLower(k) = ToLower(q.Name) /\ 1 \in DOMAIN records[k]

\* C35: every key of the table is a lower-case name, and an address
\* question is answered when the table holds an address record under any
\* casing of its name.
C35_KeysAreLowercased ==
    /\ \A k \in DOMAIN records : k = ToLower(k)
    /\ response # Unset =>
          \A i \in 1..Len(query.Questions) :
              (AsksAddress(query.Questions[i]) /\ StoredInSomeCase(query.Questions[i])) =>
                 \E j \in 1..Len(response.Answers) :
                     response.Answers[j].Name = query.Questions[i].Name

\* a record was added under "X" and the address query for "X" got no
\* answer and response code 3
C35_UpperCaseKeyUnreachable ==
    /\ response # Unset
    /\ NameUpperX \in DOMAIN records /\ 1 \in DOMAIN records[NameUpperX]
    /\ NameX \notin DOMAIN records
    /\ Len(query.Questions) = 1
    /\ query.Questions[1] = [Name |-> NameUpperX, Type |-> 1, Class |-> 1]
    /\ response.Answers = <<>>
    /\ response.Header.Flags % 16 = 3

\* C36: the response sent for a query of at most 512 bytes, answered from
\* the seed table, is at most 512 bytes long.
C36_ResponseSizeBound ==
    \A m \in 1..Len(sent) :
        Len(data) <= MESSAGE_SIZE => Len(sent[m].bytes) <= MESSAGE_SIZE

\* the query of 87 bytes, one question in full and nine as pointers to it,
\* was answered with a response of 532 bytes
C36_OversizedResponse ==
    /\ Len(sent) = 1
    /\ Len(data) = 87
    /\ Len(msgRes.msg.Questions) = 10
    /\ Len(sent[1].bytes) = 532

(***************************************************************************)
(* Properties of the receive buffers                                       *)
(***************************************************************************)
\* the datagram that arrives from address a
DatagramFrom(a) == (CHOOSE d \in Arrivals : d.addr = a).data

\* C37: the buffer a handler holds is, from its dispatch to its end, the
\* datagram it was dispatched for, whatever the loop has received since;
\* the questions it decoded are those of that datagram and what it sent
\* carries that datagram's id.
C37_BufferIsolation ==
    /\ \A i \in 1..Len(handlers) :
          /\ handlers[i].data = DatagramFrom(handlers[i].addr)
          /\ Decoded(handlers[i]) =>
                handlers[i].questions =
                   ParseDNSMessage(DatagramFrom(handlers[i].addr)).msg.Questions
    /\ \A k \in 1..Len(sent) : IdOf(sent[k].bytes) = IdOf(DatagramFrom(sent[k].addr))

\* a second, different datagram was received and its handler has ended
\* while the handler of the first has not yet decoded its buffer
C37_Witness ==
    /\ Len(handlers) = 2
    /\ handlers[1].pc = "start"
    /\ handlers[2].pc = "done"
    /\ handlers[1].data # handlers[2].data

\* the first handler decoded and sent after the second had sent
C37_WitnessLateSend ==
    /\ Len(handlers) = 2 /\ Len(sent) = 2
    /\ handlers[1].addr # handlers[2].addr
    /\ sent[2].addr = handlers[1].addr

(***************************************************************************)
(* Properties of the decoder's reads                                       *)
(***************************************************************************)
\* The indices data[...] is read at while the name at off is decoded, each
\* read listed where parseDomainName makes it: the length byte, the second
\* byte of a pointer, the bytes of a label, and the reads of the nested
\* call.  An index is listed whether or not it lies inside the buffer.
RECURSIVE ReadsOfName(_, _, _)
ReadsOfName(buf, off, active) ==
    IF off >= Len(buf) THEN {}
    ELSE LET length == buf[off + 1] IN
         IF length = 0 THEN {off}
         ELSE IF length >= 192
         THEN IF off + 1 >= Len(buf) THEN {off}
              ELSE LET pointer == PointerTarget(length, buf[off + 2]) IN
                   {off, off + 1} \cup
                      (IF pointer \in active THEN {}
                       ELSE ReadsOfName(buf, pointer, active \cup {pointer}))
         ELSE IF off + length + 1 > Len(buf) THEN {off}
         ELSE {off} \cup (off + 1 .. off + length)
                    \cup ReadsOfName(buf, off + length + 1, active)

\* the reads of parseQuestions for n questions from off on
RECURSIVE ReadsOfQuestions(_, _, _)
ReadsOfQuestions(buf, off, n) ==
    IF n = 0 THEN {}
    ELSE LET nm == parseDomainName(buf, off)
             q == parseQuestions(buf, off) IN
         ReadsOfName(buf, off, {off}) \cup
            (IF q.err # None THEN {}
             ELSE (nm.offset .. nm.offset + 3) \cup ReadsOfQuestions(buf, q.offset, n - 1))

\* the offsets parseDomainName and parseQuestions return for n questions
RECURSIVE OffsetsReturned(_, _, _)
OffsetsReturned(buf, off, n) ==
    IF n = 0 THEN {}
    ELSE LET nm == parseDomainName(buf, off)
             q == parseQuestions(buf, off) IN
         IF nm.err # None THEN {}
         ELSE {nm.offset} \cup
              (IF q.err # None THEN {}
               ELSE {q.offset} \cup OffsetsReturned(buf, q.offset, n - 1))

\* no chain of pointers in the buffer comes back to an offset it left
NoPointerCycle(buf) == \A o \in 0..Len(buf) - 1 : ~ChainRevisits(buf, o, {o})

\* C38: for a buffer without pointer cycles decoding returns an error or a
\* result; every index read lies in 0 .. len(data) - 1 and every offset
\* returned after a name or a question is at most len(data).
C38_DecodeStaysInside ==
    /\ nameRes # Unset =>
          /\ NoPointerCycle(data) => nameRes.err \in ReturnedErrors \cup {None}
          /\ ReadsOfName(data, offset, {offset}) \subseteq 0..Len(data) - 1
          /\ nameRes.err = None => nameRes.offset <= Len(data)
    /\ (msgRes # Unset /\ Len(data) >= MIN_MESSAGE_SIZE) =>
          /\ NoPointerCycle(data) => msgRes.err \in ReturnedErrors \cup {None}
          /\ ReadsOfQuestions(data, 12, U16(data[5], data[6])) \subseteq 0..Len(data) - 1
          /\ \A o \in OffsetsReturned(data, 12, U16(data[5], data[6])) : o <= Len(data)
    /\ (msgRes # Unset /\ Len(data) < MIN_MESSAGE_SIZE) =>
          msgRes.err = "message too short"

\* a name whose last label ends with the buffer's last byte but one and
\* whose terminator is the last byte was decoded: the offset returned is
\* len(data)
C38_Witness ==
    /\ nameRes # Unset /\ nameRes.err = None
    /\ nameRes.offset = Len(data)
    /\ Len(data) - 1 \in ReadsOfName(data, offset, {offset})
    /\ Len(nameRes.name) >= 3

\* a pointer in the last two bytes of the buffer was followed
C38_WitnessPointerAtEnd ==
    /\ nameRes # Unset /\ nameRes.err = None
    /\ PointerPos(data, offset) = Len(data) - 2
    /\ nameRes.offset = Len(data)

\* a message was decoded whose question ends with the buffer
C38_WitnessMessage ==
    /\ msgRes # Unset /\ msgRes.err = None
    /\ Len(msgRes.msg.Questions) = 1
    /\ Len(data) \in OffsetsReturned(data, 12, 1)

(***************************************************************************)
(* Properties of the load balancer                                         *)
(***************************************************************************)
AnyAlive == \E i \in 1..Len(backends) : backends[i]

AllAlive == \A i \in 1..Len(backends) : backends[i]

\* the step is a call of GetNextPeer, made directly or by ServeHTTP
PeerRequested == lbCalls' # lbCalls

\* the call returns a backend whose flag is set when there is one, nil when
\* there is none
SelectsAlive ==
    IF AnyAlive
    THEN peer'.kind = "backend" /\ backends[peer'.idx + 1]
    ELSE peer' = NilPeer

\* the last n of the backends returned since the list and the flags last
\* changed are n different backends, n being the number of backends
RoundRobin ==
    LET n == Len(backends)
        m == Len(picked) IN
    (AllAlive /\ n >= 1 /\ m >= n) =>
        \A i, j \in (m - n + 1)..m : i # j => picked[i] # picked[j]

\* C39: for every list of backends and every assignment of Alive flags, the
\* empty list included, a call of GetNextPeer returns without failing, and
\* returns a backend whose flag is set when there is one and nil when there
\* is none; while all n backends are alive, n calls in a row return n
\* different backends.
C39_PeerSelection ==
    /\ [][PeerRequested => SelectsAlive]_vars
    /\ [](RoundRobin)

\* C39: on the empty list the call does not return nil: it panics with an
\* integer divide by zero, the counter already incremented.
C39_EmptyListPanics ==
    /\ backends = <<>>
    /\ peer = DivideByZero
    /\ current = lbCalls

\* C39: on every list that has a backend the call selects as stated.
C39_SelectionOnBackends ==
    /\ [][(PeerRequested /\ backends # <<>>) => SelectsAlive]_vars
    /\ [](RoundRobin)

\* C39: three backends, all alive, were returned one after the other.
C39_FullRound ==
    /\ Len(backends) = MaxBackends
    /\ AllAlive
    /\ Len(picked) = MaxBackends

\* C39: a dead backend was passed over and the counter set to the index of
\* the backend returned.
C39_SkippedDead ==
    /\ peer.kind = "backend"
    /\ Len(backends) = MaxBackends
    /\ ~backends[1] /\ ~backends[2] /\ backends[3]
    /\ current = 2
    /\ lbCalls = 1

\* C40: ServeHTTP hands the request to the reverse proxy of the backend that
\* GetNextPeer returned, and answers 503 Service Unavailable when
\* GetNextPeer returned nil.
C40_RequestHandling ==
    [][(PeerRequested /\ reply' # NoReply) =>
          CASE peer'.kind = "backend" -> reply' = Proxied(peer'.idx)
            [] peer'.kind = "nil" -> reply' = ServiceUnavailable
            [] OTHER -> TRUE]_vars

\* C40: with no backend alive ServeHTTP reads the ReverseProxy of the nil
\* peer and panics; no 503 is written.
C40_NilPeerDereferenced ==
    /\ backends # <<>>
    /\ ~AnyAlive
    /\ peer = NilPeer
    /\ reply = NilDereference

\* C40: with a backend returned ServeHTTP answers 503 and the request is
\* not proxied.
C40_LivePeerRefused ==
    /\ peer.kind = "backend"
    /\ backends[peer.idx + 1]
    /\ reply = ServiceUnavailable

\* C40: no request is ever handed to a reverse proxy.
C40_NeverProxied == reply.kind # "proxied"

====
